---- MODULE Spec2Model ----
(***************************************************************************)
(* A model of dsmeta: the annotation pipeline (graph.py and nodes/) and    *)
(* the directory monitor with its task executor (monitor.py).              *)
(*                                                                         *)
(* Spec drives process_dataset: one DatasetState through the nodes of     *)
(* the compiled StateGraph.  SpecMonitor drives DatasetHandler,            *)
(* TaskExecutor and DatasetMonitor on the asyncio event loop: every action *)
(* is the code between two suspension points.                              *)
(***************************************************************************)
EXTENDS Integers, Sequences, FiniteSets, TLC

(***************************************************************************)
(* Bounds of the model.                                                    *)
(***************************************************************************)
\* process_dataset invocations explored by Spec
MaxRuns == 2
\* the clock of the monitor model runs from 0 to MaxTime seconds
MaxTime == 6
\* process_dataset_task tasks that exist at the same time
MaxJobs == 2
\* config.monitoring.max_concurrent_tasks (default 4), scaled down
MaxConcurrent == 1
\* Queue(maxsize=1000) of DatasetMonitor.task_queue, scaled down
TaskQueueMaxsize == 1
\* Queue(maxsize=1000) of TaskExecutor.retry_queue, scaled down
RetryQueueMaxsize == 1

(***************************************************************************)
(* Part 1.  The pipeline: graph.py, models.py, nodes/*.py                  *)
(***************************************************************************)
VARIABLES
    node,       \* where the graph run stands: "idle", a node name, "END",
                \* "raised" (a node let an exception escape), "returned"
    state,      \* the DatasetState of the run in progress
    fs,         \* what dataset_path is on disk: "dir", "file" or "missing"
    executed,   \* history of the run: <<[stage, status]>> per node executed
    routed,     \* need_search as the router found it: "true", "false", or "unread"
    result,     \* what process_dataset returned ("none" while running)
    next_id     \* number of DatasetState objects created so far

pvars == <<node, state, fs, executed, routed, result, next_id>>

\* the state of the monitor (Part 2)
VARIABLES
    running,        \* DatasetMonitor._running
    observer,       \* the watchdog observer thread is alive
    now,            \* time.time(), in seconds
    last_processed, \* DatasetHandler.last_processed: path -> fire time (-1: absent)
    task_queue,     \* DatasetMonitor.task_queue
    retry_queue,    \* TaskExecutor.retry_queue
    semaphore,      \* the value of TaskExecutor.semaphore
    active_tasks,   \* TaskExecutor.active_tasks: path -> task (0: absent)
    failed_tasks,   \* TaskExecutor.failed_tasks: path -> count (0: absent)
    jobs,           \* the process_dataset_task tasks with their cleanup_task
    pq,             \* where process_queue stands
    rq,             \* where process_retry_queue stands
    rq_item,        \* the path process_retry_queue holds while it puts
    stop_pc,        \* where DatasetMonitor.stop stands
    stop_wait,      \* the tasks stop() gathers and that are not yet resolved
    succeeded,      \* history: paths with a run that returned success
    retries,        \* history: times each path was put on retry_queue
    abandoned       \* history: paths handle_failed_task gave up on

mvars == <<running, observer, now, last_processed, task_queue,
           retry_queue, semaphore, active_tasks, failed_tasks, jobs, pq, rq,
           rq_item, stop_pc, stop_wait, succeeded, retries, abandoned>>

\* the stages and helpers examined on their own, outside a pipeline run
VARIABLES
    wo,         \* write_outputs on a dataset directory: artifacts, files, result
    fn          \* a helper function applied to an argument: call, input, output

lvars == <<wo, fn>>

\* ProcessingStatus
PENDING == "pending"
PROCESSING == "processing"
SUCCESS == "success"
FAILED == "failed"

NoMessage == "None"

\* the nodes added to the StateGraph, in the order of its edges
Stages ==
    << "scan_and_parse", "read_and_sample", "preliminary_analysis",
       "decide_need_search", "web_search", "synthesize_and_populate",
       "validate_and_postprocess", "generate_markdown", "write_outputs" >>

\* a DatasetState whose processing_id default is evaluated once, not per
\* instance
DatasetState_shared_id(id) ==
    [ dataset_path   |-> "path",
      dataset_name   |-> "None",
      processing_id  |-> 0,
      files          |-> "empty",
      total_size     |-> 0,
      preliminary    |-> "empty",
      web_search     |-> "empty",
      meta           |-> "empty",
      artifacts      |-> "empty",
      current_step   |-> "start",
      status         |-> PENDING,
      error_message  |-> NoMessage,
      retry_count    |-> 0,
      need_search    |-> FALSE,
      cache_key      |-> "None",
      errors         |-> << >> ]

\* DatasetState(dataset_path=...): every other field takes its default
DatasetState(id) ==
    [ dataset_path   |-> "path",
      dataset_name   |-> "None",
      processing_id  |-> id,
      files          |-> "empty",
      total_size     |-> 0,
      preliminary    |-> "empty",
      web_search     |-> "empty",
      meta           |-> "empty",
      artifacts      |-> "empty",
      current_step   |-> "start",
      status         |-> PENDING,
      error_message  |-> NoMessage,
      retry_count    |-> 0,
      need_search    |-> FALSE,
      cache_key      |-> "None",
      errors         |-> << >> ]

\* The graph merges a node's returned dict into the state: a returned key
\* replaces the field, every other field keeps its value.
Merge(s, u) ==
    [k \in DOMAIN s |-> IF k \in DOMAIN u THEN u[k] ELSE s[k]]

(***************************************************************************)
(* The nodes.  Each operator is the dict a node returns for the state s it *)
(* is given and the outcome o of what it calls (the file system, the LLM,  *)
(* the search service): one outcome per return statement of the node.      *)
(***************************************************************************)

\* scan_and_parse: the path checks decide the outcome on a missing path
\* or a plain file; on a directory the scan succeeds or raises
ScanOutcomes(f) ==
    IF f = "missing" THEN {"no_path"}
    ELSE IF f = "file" THEN {"not_dir"}
    ELSE {"ok", "exception"}

scan_and_parse(s, o) ==
    CASE o = "no_path" ->
           [ status |-> FAILED,
             error_message |-> "Dataset path does not exist",
             current_step |-> "scan_and_parse" ]
      [] o = "not_dir" ->
           [ status |-> FAILED,
             error_message |-> "Dataset path is not a directory",
             current_step |-> "scan_and_parse" ]
      [] o = "ok" ->
           [ dataset_name |-> "name",
             files |-> "scanned",
             total_size |-> 1,
             cache_key |-> "key",
             status |-> PROCESSING,
             current_step |-> "scan_and_parse" ]
      [] OTHER ->
           [ status |-> FAILED,
             error_message |-> "Error in scan_and_parse",
             current_step |-> "scan_and_parse",
             errors |-> Append(s.errors, "Error in scan_and_parse") ]

ReadOutcomes == {"ok", "exception"}

read_and_sample(s, o) ==
    IF o = "ok"
    THEN [ status |-> PROCESSING,
           current_step |-> "read_and_sample" ]
    ELSE [ status |-> FAILED,
           error_message |-> "Error in read_and_sample",
           current_step |-> "read_and_sample",
           errors |-> Append(s.errors, "Error in read_and_sample") ]

\* preliminary_analysis: mock mode reads state.dataset_name.lower(), which
\* raises inside the try block when scan_and_parse set no name
PrelimOutcomes(s) ==
    (IF s.dataset_name = "None" THEN {} ELSE {[kind |-> "mock", need |-> FALSE]})
    \cup {[kind |-> k, need |-> FALSE] : k \in {"llm_none", "parse_none", "exception"}}
    \cup {[kind |-> "ok", need |-> b] : b \in BOOLEAN}

preliminary_analysis(s, o) ==
    CASE o.kind = "mock" ->
           [ current_step |-> "preliminary_analysis",
             status |-> PROCESSING,
             preliminary |-> "set",
             need_search |-> FALSE ]
      [] o.kind = "llm_none" ->
           [ status |-> FAILED,
             error_message |-> "Failed to get LLM response after retries",
             current_step |-> "preliminary_analysis" ]
      [] o.kind = "parse_none" ->
           [ status |-> FAILED,
             error_message |-> "Failed to parse LLM response",
             current_step |-> "preliminary_analysis" ]
      [] o.kind = "ok" ->
           [ preliminary |-> "set",
             need_search |-> o.need,
             status |-> PROCESSING,
             current_step |-> "preliminary_analysis" ]
      [] OTHER ->
           [ status |-> FAILED,
             error_message |-> "Error in preliminary_analysis",
             current_step |-> "preliminary_analysis",
             errors |-> Append(s.errors, "Error in preliminary_analysis") ]

\* a decision that asks for low confidence and missing fields together
NeedSearchDecision_both(missing, low_confidence, is_known_dataset) ==
    (missing >= 2 /\ low_confidence) \/ is_known_dataset

\* decide_need_search: the decision from the number of missing key fields,
\* the confidence test and the public-dataset test
NeedSearchDecision(missing, low_confidence, is_known_dataset) ==
    missing >= 2 \/ low_confidence \/ is_known_dataset

\* an empty preliminary has none of the four fields and confidence 0.0;
\* _is_likely_public_dataset is False without a dataset name
DecideOutcomes(s) ==
    {[kind |-> "exception", missing |-> 0, low |-> FALSE, known |-> FALSE]}
    \cup
    { [kind |-> "ok", missing |-> m, low |-> l, known |-> k] :
        m \in (IF s.preliminary = "empty" THEN {4} ELSE 0..4),
        l \in (IF s.preliminary = "empty" THEN {TRUE} ELSE BOOLEAN),
        k \in (IF s.dataset_name = "None" THEN {FALSE} ELSE BOOLEAN) }

\* a decide_need_search whose except block skips the search
decide_need_search_fail_closed(s, o) ==
    IF o.kind = "ok"
    THEN [ current_step |-> "decide_need_search",
           status |-> PROCESSING,
           need_search |-> NeedSearchDecision(o.missing, o.low, o.known) ]
    ELSE [ current_step |-> "decide_need_search",
           status |-> PROCESSING,
           need_search |-> FALSE,
           error_message |-> "decide_need_search error" ]

decide_need_search(s, o) ==
    IF o.kind = "ok"
    THEN [ current_step |-> "decide_need_search",
           status |-> PROCESSING,
           need_search |-> NeedSearchDecision(o.missing, o.low, o.known) ]
    ELSE [ current_step |-> "decide_need_search",
           status |-> PROCESSING,
           need_search |-> TRUE,
           error_message |-> "decide_need_search error" ]

WebSearchOutcomes == {"disabled", "no_queries", "ok_empty", "ok_results", "exception"}

web_search(s, o) ==
    IF o = "exception"
    THEN [ current_step |-> "web_search",
           status |-> PROCESSING,
           web_search |-> "empty",
           error_message |-> "web_search error" ]
    ELSE [ current_step |-> "web_search",
           status |-> PROCESSING,
           web_search |-> IF o = "ok_results" THEN "results" ELSE "empty" ]

SynthesizeOutcomes == {"mock", "llm", "fallback", "exception"}

\* a synthesize_and_populate that marks the search as consumed and counts
\* its fallback as a retry
synthesize_and_populate_resets_search(s, o) ==
    IF o = "exception"
    THEN [ current_step |-> "synthesize_and_populate",
           status |-> PROCESSING,
           meta |-> "set",
           need_search |-> FALSE,
           retry_count |-> s.retry_count + 1,
           error_message |-> "synthesize_and_populate error" ]
    ELSE [ current_step |-> "synthesize_and_populate",
           status |-> PROCESSING,
           meta |-> "set",
           need_search |-> FALSE ]

synthesize_and_populate(s, o) ==
    IF o = "exception"
    THEN [ current_step |-> "synthesize_and_populate",
           status |-> PROCESSING,
           meta |-> "set",
           error_message |-> "synthesize_and_populate error" ]
    ELSE [ current_step |-> "synthesize_and_populate",
           status |-> PROCESSING,
           meta |-> "set" ]

ValidateOutcomes(s) ==
    IF s.meta = "empty" THEN {"no_meta"} ELSE {"valid", "fixed", "exception"}

validate_and_postprocess(s, o) ==
    CASE o = "no_meta" ->
           [ current_step |-> "validate_and_postprocess",
             status |-> FAILED,
             error_message |-> "no metadata to process" ]
      [] o = "exception" ->
           [ current_step |-> "validate_and_postprocess",
             status |-> PROCESSING,
             meta |-> "set",
             error_message |-> "validate_and_postprocess error" ]
      [] OTHER ->
           [ current_step |-> "validate_and_postprocess",
             status |-> PROCESSING,
             meta |-> "set" ]

\* generate_markdown: without meta and without a dataset name
\* _create_complete_metadata raises (name is a required string)
MarkdownOutcomes(s) ==
    IF s.meta = "empty" /\ s.dataset_name = "None"
    THEN {"exception"}
    ELSE {"ok", "exception"}

\* a generate_markdown that reports the run as finished
generate_markdown_reports_success(s, o) ==
    IF o = "ok"
    THEN [ meta |-> "set",
           artifacts |-> "set",
           status |-> SUCCESS,
           current_step |-> "generate_markdown" ]
    ELSE [ status |-> FAILED,
           error_message |-> "Error in generate_markdown",
           current_step |-> "generate_markdown" ]

generate_markdown(s, o) ==
    IF o = "ok"
    THEN [ meta |-> "set",
           artifacts |-> "set",
           status |-> PROCESSING,
           current_step |-> "generate_markdown" ]
    ELSE [ status |-> FAILED,
           error_message |-> "Error in generate_markdown",
           current_step |-> "generate_markdown" ]

\* write_outputs: "written" is whether at least one artifact ended written
\* or unchanged; inside a plain file no artifact can be opened
WriteOutcomes(s, f) ==
    IF s.artifacts = "empty" THEN {"no_artifacts"}
    ELSE IF f = "missing" THEN {"no_path"}
    ELSE IF f = "file" THEN {"none_written", "exception"}
    ELSE {"none_written", "written", "exception"}

write_outputs(s, o) ==
    CASE o = "no_artifacts" ->
           [ status |-> FAILED,
             error_message |-> "No artifacts to write",
             current_step |-> "write_outputs" ]
      [] o = "no_path" ->
           [ status |-> FAILED,
             error_message |-> "Dataset path does not exist",
             current_step |-> "write_outputs" ]
      [] o = "none_written" ->
           [ status |-> FAILED,
             error_message |-> "Failed to write any output files",
             current_step |-> "write_outputs" ]
      [] o = "written" ->
           [ status |-> SUCCESS,
             current_step |-> "write_outputs" ]
      [] OTHER ->
           [ status |-> FAILED,
             error_message |-> "Error in write_outputs",
             current_step |-> "write_outputs",
             errors |-> Append(s.errors, "Error in write_outputs") ]

(***************************************************************************)
(* The graph: create_annotation_graph's edges and its one router.          *)
(***************************************************************************)
\* a router that always takes the search branch
should_search_always(s) == "search"

should_search(s) == IF s.need_search THEN "search" ELSE "skip_search"

\* the node that follows node n once its update is merged into s
Edge(n, s) ==
    CASE n = "scan_and_parse" -> "read_and_sample"
      [] n = "read_and_sample" -> "preliminary_analysis"
      [] n = "preliminary_analysis" -> "decide_need_search"
      [] n = "decide_need_search" ->
           IF should_search(s) = "search"
           THEN "web_search"
           ELSE "synthesize_and_populate"
      [] n = "web_search" -> "synthesize_and_populate"
      [] n = "synthesize_and_populate" -> "validate_and_postprocess"
      [] n = "validate_and_postprocess" -> "generate_markdown"
      [] n = "generate_markdown" -> "write_outputs"
      [] n = "write_outputs" -> "END"

\* one step of the compiled graph: run node n, merge its update u, follow
\* the edge out of n
GraphStep(n, u) ==
    LET s2 == Merge(state, u) IN
    /\ node = n
    /\ state' = s2
    /\ executed' = Append(executed, [stage |-> n, status |-> u.status])
    /\ node' = Edge(n, s2)
    /\ routed' = IF n = "decide_need_search"
                 THEN (IF s2.need_search THEN "true" ELSE "false")
                 ELSE routed
    /\ UNCHANGED <<fs, result, next_id, mvars, lvars>>

(***************************************************************************)
(* process_dataset: create the state, run the graph, build the result.     *)
(***************************************************************************)
NoResult == [success |-> FALSE, status |-> "none", error_message |-> NoMessage]

\* process_dataset is called: a fresh DatasetState (its own processing_id)
\* enters the graph at START -> scan_and_parse
Invoke ==
    /\ node \in {"idle", "returned"}
    /\ next_id < MaxRuns
    /\ \E f \in {"dir", "file", "missing"} : fs' = f
    /\ next_id' = next_id + 1
    /\ state' = DatasetState(next_id + 1)
    /\ node' = "scan_and_parse"
    /\ executed' = << >>
    /\ routed' = "unread"
    /\ result' = NoResult
    /\ UNCHANGED <<mvars, lvars>>

Node_scan_and_parse ==
    \E o \in ScanOutcomes(fs) :
        GraphStep("scan_and_parse", scan_and_parse(state, o))

Node_read_and_sample ==
    \E o \in ReadOutcomes :
        GraphStep("read_and_sample", read_and_sample(state, o))

Node_preliminary_analysis ==
    \E o \in PrelimOutcomes(state) :
        GraphStep("preliminary_analysis", preliminary_analysis(state, o))

Node_decide_need_search ==
    \E o \in DecideOutcomes(state) :
        GraphStep("decide_need_search", decide_need_search(state, o))

Node_web_search ==
    \E o \in WebSearchOutcomes :
        GraphStep("web_search", web_search(state, o))

Node_synthesize_and_populate ==
    \E o \in SynthesizeOutcomes :
        GraphStep("synthesize_and_populate", synthesize_and_populate(state, o))

Node_validate_and_postprocess ==
    \E o \in ValidateOutcomes(state) :
        GraphStep("validate_and_postprocess", validate_and_postprocess(state, o))

Node_generate_markdown ==
    \E o \in MarkdownOutcomes(state) :
        GraphStep("generate_markdown", generate_markdown(state, o))

Node_write_outputs ==
    \E o \in WriteOutcomes(state, fs) :
        GraphStep("write_outputs", write_outputs(state, o))

\* synthesize_and_populate and validate_and_postprocess build a fallback
\* inside their except block; an exception raised there leaves the node and
\* ends ainvoke
NodeRaises ==
    /\ node \in {"synthesize_and_populate", "validate_and_postprocess"}
    /\ executed' = Append(executed, [stage |-> node, status |-> "raised"])
    /\ node' = "raised"
    /\ UNCHANGED <<state, fs, routed, result, next_id, mvars, lvars>>

\* ainvoke returned final_state: the result dict of process_dataset
ProcessDatasetReturn ==
    /\ node = "END"
    /\ result' = [ success |-> (state.status = SUCCESS),
                   status |-> state.status,
                   error_message |-> state.error_message ]
    /\ node' = "returned"
    /\ UNCHANGED <<state, fs, executed, routed, next_id, mvars, lvars>>

\* a process_dataset without its except block: the exception leaves the
\* function and no result dict is built
ProcessDatasetReraises ==
    /\ node = "raised"
    /\ result' = NoResult
    /\ node' = "returned"
    /\ UNCHANGED <<state, fs, executed, routed, next_id, mvars, lvars>>

\* the except block of process_dataset
ProcessDatasetExcept ==
    /\ node = "raised"
    /\ result' = [ success |-> FALSE,
                   status |-> FAILED,
                   error_message |-> "Workflow execution failed" ]
    /\ node' = "returned"
    /\ UNCHANGED <<state, fs, executed, routed, next_id, mvars, lvars>>

PInit ==
    /\ node = "idle"
    /\ state = DatasetState(0)
    /\ fs = "dir"
    /\ executed = << >>
    /\ routed = "unread"
    /\ result = NoResult
    /\ next_id = 0

PNext ==
    \/ Invoke
    \/ Node_scan_and_parse
    \/ Node_read_and_sample
    \/ Node_preliminary_analysis
    \/ Node_decide_need_search
    \/ Node_web_search
    \/ Node_synthesize_and_populate
    \/ Node_validate_and_postprocess
    \/ Node_generate_markdown
    \/ Node_write_outputs
    \/ NodeRaises
    \/ ProcessDatasetReturn
    \/ ProcessDatasetExcept


(***************************************************************************)
(* Part 2.  The monitor: monitor.py                                        *)
(***************************************************************************)
\* directories that match config.monitoring.patterns
Paths == {"a", "b"}

cooldown_time == 5
max_retries == 3
max_concurrent == MaxConcurrent

Jobs == 1..MaxJobs
FreeJob == [path |-> "none", st |-> "free", delay |-> 0]

QueueFull(q, maxsize) == Len(q) >= maxsize

\* the cooldown test of on_created
in_cooldown(p, current_time) ==
    /\ last_processed[p] # -1
    /\ current_time - last_processed[p] < cooldown_time

\* the retry test of handle_failed_task
should_retry(retry_count) == retry_count < max_retries

\* 2 ** n
Pow2[n \in Nat] == IF n = 0 THEN 1 ELSE 2 * Pow2[n - 1]

\* a delay that grows by a minute per failure
backoff_delay_linear(retry_count) == (retry_count + 1) * 60

\* 2 ** retry_count * 60
backoff_delay(retry_count) == Pow2[retry_count] * 60

\* an acquire that also passes when no permit is left
semaphore_free_at_zero(value) == value >= 0

\* Semaphore.acquire returns without waiting
semaphore_free(value) == value > 0

\* while self._running: the loop continues or is left
LoopNext(pos) == IF running THEN pos ELSE "exited"

MInit ==
    /\ running = FALSE
    /\ observer = FALSE
    /\ now = 0
    /\ last_processed = [p \in Paths |-> -1]
    /\ task_queue = << >>
    /\ retry_queue = << >>
    /\ semaphore = max_concurrent
    /\ active_tasks = [p \in Paths |-> 0]
    /\ failed_tasks = [p \in Paths |-> 0]
    /\ jobs = [j \in Jobs |-> FreeJob]
    /\ pq = "off"
    /\ rq = "off"
    /\ rq_item = "none"
    /\ stop_pc = "idle"
    /\ stop_wait = {}
    /\ succeeded = {}
    /\ retries = [p \in Paths |-> 0]
    /\ abandoned = {}

\* DatasetMonitor.start: the observer is started, _running set and the two
\* loops of start_processing_loop entered
Start ==
    /\ ~running
    /\ pq = "off"
    /\ running' = TRUE
    /\ observer' = TRUE
    /\ pq' = "get"
    /\ rq' = "get"
    /\ UNCHANGED <<now, last_processed, task_queue, retry_queue,
                   semaphore, active_tasks, failed_tasks, jobs, rq_item,
                   stop_pc, stop_wait, succeeded, retries, abandoned, pvars, lvars>>

\* time passes: d seconds
Tick(d) ==
    /\ now + d <= MaxTime
    /\ now' = now + d
    /\ UNCHANGED <<running, observer, last_processed, task_queue,
                   retry_queue, semaphore, active_tasks, failed_tasks, jobs,
                   pq, rq, rq_item, stop_pc, stop_wait, succeeded, retries, abandoned, pvars, lvars>>

TickSecond == Tick(1)

TickCooldown == Tick(cooldown_time)

\* DatasetHandler.on_created for a matching directory p, on the observer
\* thread
on_created(p) ==
    /\ observer
    /\ IF in_cooldown(p, now)
       THEN UNCHANGED <<last_processed, task_queue>>
       ELSE /\ last_processed' = [last_processed EXCEPT ![p] = now]
            /\ IF QueueFull(task_queue, TaskQueueMaxsize)
               THEN UNCHANGED task_queue
               ELSE task_queue' = Append(task_queue, p)
    /\ UNCHANGED <<running, observer, now, retry_queue, semaphore,
                   active_tasks, failed_tasks, jobs, pq, rq, rq_item,
                   stop_pc, stop_wait, succeeded, retries, abandoned, pvars, lvars>>

OnCreated == \E p \in Paths : on_created(p)

\* the lowest task slot not in use
NewJob == CHOOSE j \in Jobs : jobs[j].st = "free" /\ \A k \in Jobs : k < j => jobs[k].st # "free"

\* process_queue: wait_for(task_queue.get()) returned a path.  The task and
\* its cleanup_task are created, active_tasks[path] is set, and the loop
\* tests _running again.
ProcessQueueGet ==
    /\ pq = "get"
    /\ task_queue # << >>
    /\ \E j \in Jobs : jobs[j].st = "free"
    /\ LET dataset_path == Head(task_queue) IN
       /\ task_queue' = Tail(task_queue)
       /\ jobs' = [jobs EXCEPT ![NewJob] =
                     [path |-> dataset_path, st |-> "waiting", delay |-> 0]]
       /\ active_tasks' = [active_tasks EXCEPT ![dataset_path] = NewJob]
    /\ pq' = LoopNext("get")
    /\ UNCHANGED <<running, observer, now, last_processed, retry_queue, semaphore, failed_tasks, rq, rq_item,
                   stop_pc, stop_wait, succeeded, retries, abandoned, pvars, lvars>>

\* process_queue: wait_for timed out on an empty queue (continue)
ProcessQueueTimeout ==
    /\ pq = "get"
    /\ task_queue = << >>
    /\ ~running
    /\ pq' = LoopNext("get")
    /\ UNCHANGED <<running, observer, now, last_processed, task_queue, retry_queue, semaphore, active_tasks,
                   failed_tasks, jobs, rq, rq_item, stop_pc, stop_wait,
                   succeeded, retries, abandoned, pvars, lvars>>

\* process_dataset_task: async with self.semaphore is entered
TaskAcquire(j) ==
    /\ jobs[j].st = "waiting"
    /\ semaphore_free(semaphore)
    /\ semaphore' = semaphore - 1
    /\ jobs' = [jobs EXCEPT ![j].st = "running"]
    /\ UNCHANGED <<running, observer, now, last_processed, task_queue, retry_queue, active_tasks, failed_tasks, pq,
                   rq, rq_item, stop_pc, stop_wait, succeeded, retries, abandoned, pvars, lvars>>

\* the value process_dataset_task returns for what process_dataset did:
\* True on status success, False on any other status or on an exception
task_result(outcome) == IF outcome = "success" THEN "done_ok" ELSE "done_fail"

\* a permit that is never given back
release_keeps_permit(value) == value

\* what leaving "async with self.semaphore" does to the semaphore
release(value) == value + 1

\* process_dataset_task returns: the semaphore is released and the task is
\* resolved with its result
TaskReturn(j) ==
    /\ jobs[j].st = "running"
    /\ \E outcome \in {"success", "failed", "exception"} :
           /\ jobs' = [jobs EXCEPT ![j].st = task_result(outcome)]
           /\ succeeded' = IF outcome = "success"
                           THEN succeeded \cup {jobs[j].path}
                           ELSE succeeded
    /\ semaphore' = release(semaphore)
    /\ stop_wait' = stop_wait \ {j}
    /\ UNCHANGED <<running, observer, now, last_processed, task_queue, retry_queue, active_tasks, failed_tasks, pq,
                   rq, rq_item, stop_pc, retries, abandoned, pvars, lvars>>

\* cleanup_task after "success = await task" gave True: only the finally
\* block runs
CleanupSuccess(j) ==
    /\ jobs[j].st = "done_ok"
    /\ active_tasks' = [active_tasks EXCEPT ![jobs[j].path] = 0]
    /\ jobs' = [jobs EXCEPT ![j] = FreeJob]
    /\ UNCHANGED <<running, observer, now, last_processed, task_queue, retry_queue, semaphore, failed_tasks, pq, rq,
                   rq_item, stop_pc, stop_wait, succeeded, retries, abandoned, pvars, lvars>>

\* cleanup_task after "success = await task" gave False: handle_failed_task
\* up to its first suspension (asyncio.sleep), or to its end when the path
\* is given up; then the finally block of cleanup_task
HandleFailedTask(j) ==
    /\ jobs[j].st = "done_fail"
    /\ LET dataset_path == jobs[j].path
           retry_count == failed_tasks[dataset_path]
       IN IF should_retry(retry_count)
          THEN /\ failed_tasks' = [failed_tasks EXCEPT ![dataset_path] = retry_count + 1]
               /\ jobs' = [jobs EXCEPT ![j].st = "sleeping",
                                       ![j].delay = backoff_delay(retry_count)]
               /\ UNCHANGED <<active_tasks, abandoned>>
          ELSE /\ abandoned' = abandoned \cup {dataset_path}
               /\ active_tasks' = [active_tasks EXCEPT ![dataset_path] = 0]
               /\ jobs' = [jobs EXCEPT ![j] = FreeJob]
               /\ UNCHANGED failed_tasks
    /\ UNCHANGED <<running, observer, now, last_processed, task_queue, retry_queue, semaphore, pq, rq, rq_item,
                   stop_pc, stop_wait, succeeded, retries, pvars, lvars>>

\* "await self.retry_queue.put(dataset_path)" completes, then the finally
\* block of cleanup_task
RetryQueuePut(j) ==
    /\ retry_queue' = Append(retry_queue, jobs[j].path)
    /\ retries' = [retries EXCEPT ![jobs[j].path] = @ + 1]
    /\ active_tasks' = [active_tasks EXCEPT ![jobs[j].path] = 0]
    /\ jobs' = [jobs EXCEPT ![j] = FreeJob]

\* handle_failed_task: asyncio.sleep(delay) is over; the put completes at
\* once unless retry_queue is full, and then it waits for a free slot
SleepDone(j) ==
    /\ jobs[j].st = "sleeping"
    /\ IF QueueFull(retry_queue, RetryQueueMaxsize)
       THEN /\ jobs' = [jobs EXCEPT ![j].st = "retry_put"]
            /\ UNCHANGED <<retry_queue, active_tasks, retries>>
       ELSE RetryQueuePut(j)
    /\ UNCHANGED <<running, observer, now, last_processed, task_queue, semaphore, failed_tasks, pq, rq, rq_item,
                   stop_pc, stop_wait, succeeded, abandoned, pvars, lvars>>

\* handle_failed_task: the put that waited on a full retry_queue completes
RetryPutDone(j) ==
    /\ jobs[j].st = "retry_put"
    /\ ~QueueFull(retry_queue, RetryQueueMaxsize)
    /\ RetryQueuePut(j)
    /\ UNCHANGED <<running, observer, now, last_processed, task_queue, semaphore, failed_tasks, pq, rq, rq_item,
                   stop_pc, stop_wait, succeeded, abandoned, pvars, lvars>>

\* process_retry_queue: wait_for(retry_queue.get()) returned a path;
\* "await self.task_queue.put(path)" completes at once unless task_queue is
\* full, and then it waits for a free slot
RetryQueueGet ==
    /\ rq = "get"
    /\ retry_queue # << >>
    /\ retry_queue' = Tail(retry_queue)
    /\ IF QueueFull(task_queue, TaskQueueMaxsize)
       THEN /\ rq' = "put"
            /\ rq_item' = Head(retry_queue)
            /\ UNCHANGED task_queue
       ELSE /\ task_queue' = Append(task_queue, Head(retry_queue))
            /\ rq' = LoopNext("get")
            /\ UNCHANGED rq_item
    /\ UNCHANGED <<running, observer, now, last_processed, semaphore, active_tasks, failed_tasks, jobs, pq, stop_pc,
                   stop_wait, succeeded, retries, abandoned, pvars, lvars>>

\* process_retry_queue: the put that waited on a full task_queue completes
TaskQueuePutDone ==
    /\ rq = "put"
    /\ ~QueueFull(task_queue, TaskQueueMaxsize)
    /\ task_queue' = Append(task_queue, rq_item)
    /\ rq_item' = "none"
    /\ rq' = LoopNext("get")
    /\ UNCHANGED <<running, observer, now, last_processed, retry_queue, semaphore, active_tasks, failed_tasks, jobs,
                   pq, stop_pc, stop_wait, succeeded, retries, abandoned, pvars, lvars>>

\* process_retry_queue: wait_for timed out on an empty queue (continue)
RetryQueueTimeout ==
    /\ rq = "get"
    /\ retry_queue = << >>
    /\ ~running
    /\ rq' = LoopNext("get")
    /\ UNCHANGED <<running, observer, now, last_processed, task_queue, retry_queue, semaphore, active_tasks,
                   failed_tasks, jobs, pq, rq_item, stop_pc, stop_wait,
                   succeeded, retries, abandoned, pvars, lvars>>

\* the tasks in active_tasks that have not resolved yet
Unresolved == {j \in Jobs : jobs[j].st \in {"waiting", "running"}
                            /\ \E p \in Paths : active_tasks[p] = j}

\* DatasetMonitor.stop up to its gather: _running is cleared, the observer
\* stopped and joined, and the tasks now in active_tasks are awaited; with
\* active_tasks empty stop() returns without a suspension
Stop ==
    /\ running
    /\ running' = FALSE
    /\ observer' = FALSE
    /\ stop_wait' = Unresolved
    /\ stop_pc' = IF \A p \in Paths : active_tasks[p] = 0
                  THEN "returned" ELSE "gather"
    /\ UNCHANGED <<now, last_processed, task_queue, retry_queue,
                   semaphore, active_tasks, failed_tasks, jobs, pq, rq,
                   rq_item, succeeded, retries, abandoned, pvars, lvars>>

\* DatasetMonitor.stop returns: every gathered task has resolved
StopReturn ==
    /\ stop_pc = "gather"
    /\ stop_wait = {}
    /\ stop_pc' = "returned"
    /\ UNCHANGED <<running, observer, now, last_processed, task_queue, retry_queue, semaphore, active_tasks,
                   failed_tasks, jobs, pq, rq, rq_item, stop_wait, succeeded, retries, abandoned, pvars, lvars>>

\* the monitor in service: events arrive a cooldown apart or at the same
\* instant, runs succeed or fail, backoff sleeps end
MNext ==
    \/ Start
    \/ TickCooldown
    \/ OnCreated
    \/ ProcessQueueGet
    \/ \E j \in Jobs : TaskAcquire(j)
    \/ \E j \in Jobs : TaskReturn(j)
    \/ \E j \in Jobs : CleanupSuccess(j)
    \/ \E j \in Jobs : HandleFailedTask(j)
    \/ \E j \in Jobs : SleepDone(j)
    \/ \E j \in Jobs : RetryPutDone(j)
    \/ RetryQueueGet
    \/ TaskQueuePutDone

\* the monitor in service and its shutdown
SNext ==
    \/ MNext
    \/ ProcessQueueTimeout
    \/ RetryQueueTimeout
    \/ Stop
    \/ StopReturn

\* the first seconds of the watcher, second by second: no backoff sleep
\* (60 seconds or more) ends within MaxTime seconds
WNext ==
    \/ Start
    \/ TickSecond
    \/ OnCreated
    \/ ProcessQueueGet
    \/ \E j \in Jobs : TaskAcquire(j)
    \/ \E j \in Jobs : TaskReturn(j)
    \/ \E j \in Jobs : CleanupSuccess(j)
    \/ \E j \in Jobs : HandleFailedTask(j)

vars == <<pvars, mvars, lvars>>

\* nothing is examined on its own
NoWrite == [runs |-> 0]

NoCall == [call |-> "none"]

LIdle == wo = NoWrite /\ fn = NoCall

Init == PInit /\ MInit /\ LIdle

Spec == Init /\ [][PNext]_vars

SpecMonitor == Init /\ [][MNext]_vars

SpecShutdown == Init /\ [][SNext]_vars

SpecWatcher == Init /\ [][WNext]_vars


(***************************************************************************)
(* Part 3.  Properties of the pipeline, checked under Spec                 *)
(***************************************************************************)
StageNames == [i \in 1..Len(executed) |-> executed[i].stage]

IsPrefix(a, b) == Len(a) <= Len(b) /\ \A i \in 1..Len(a) : a[i] = b[i]

WithSearch == Stages

WithoutSearch == SelectSeq(Stages, LAMBDA n : n # "web_search")

Ran(n) == \E i \in 1..Len(executed) : executed[i].stage = n

SomeStageFailed == \E i \in 1..Len(executed) : executed[i].status = FAILED

\* C1: a stage that ends with status failed is the last stage of its run:
\* no later stage executes after it.
C1_ShortCircuit ==
    \A i \in 1..Len(executed) :
        executed[i].status = FAILED => i = Len(executed)

\* C2: when a stage of the run ended with status failed, the result
\* process_dataset returns has success false, status failed and an error
\* message; the failure is never turned into a success.
C2_FailureSurfaces ==
    (node = "returned" /\ SomeStageFailed) =>
        /\ result.success = FALSE
        /\ result.status = FAILED
        /\ result.error_message # NoMessage

\* one change of the status field that the life cycle allows
StatusStep(a, b) ==
    \/ a = b
    \/ a = PENDING /\ b = PROCESSING
    \/ a = PROCESSING /\ b \in {SUCCESS, FAILED}

\* C3: within one run the status only moves pending -> processing ->
\* success or failed: never from pending directly to a terminal status, and
\* a terminal status is never changed by a later stage.
C3_StatusLifecycle ==
    [][next_id' = next_id => StatusStep(state.status, state'.status)]_vars

\* C4: the stages of one run execute one at a time, each at most once, in
\* the fixed order scan_and_parse .. write_outputs, and web_search executes
\* exactly when need_search was true when the router read it.
C4_FixedOrder ==
    /\ IsPrefix(StageNames, WithSearch) \/ IsPrefix(StageNames, WithoutSearch)
    /\ Ran("web_search") => routed = "true"
    /\ (Ran("synthesize_and_populate") /\ routed = "true") => Ran("web_search")
    /\ (node = "web_search") => routed = "true"
    /\ (node = "synthesize_and_populate" /\ routed = "true") => Ran("web_search")

\* a returned run that went through the search branch, all nine stages
C4_Witness ==
    /\ node = "returned"
    /\ routed = "true"
    /\ StageNames = WithSearch

\* C5: status success is set by write_outputs only, as the last stage of
\* the run: no other stage sets it, and a run reports success only after
\* write_outputs has executed.
C5_SuccessOnlyByWriteOutputs ==
    /\ \A i \in 1..Len(executed) :
           executed[i].status = SUCCESS =>
               executed[i].stage = "write_outputs" /\ i = Len(executed)
    /\ state.status = SUCCESS =>
           Len(executed) > 0 /\ executed[Len(executed)].stage = "write_outputs"
    /\ result.status = SUCCESS => Ran("write_outputs")

\* a run that returned success
C5_Witness ==
    /\ node = "returned"
    /\ result.success = TRUE
    /\ result.status = SUCCESS
    /\ executed[Len(executed)].stage = "write_outputs"


\* C36: when decide_need_search hits an error while it computes the
\* decision, it returns need_search true with status processing, and the
\* node the graph runs next is web_search.
C36_DecisionFailsOpen ==
    (/\ executed # << >>
     /\ executed[Len(executed)].stage = "decide_need_search"
     /\ state.error_message = "decide_need_search error")
        => /\ state.need_search
           /\ state.status = PROCESSING
           /\ executed[Len(executed)].status = PROCESSING
           /\ routed = "true"
           /\ node = "web_search"

\* the except block of decide_need_search was taken and web_search is next
C36_Witness ==
    /\ executed # << >>
    /\ executed[Len(executed)].stage = "decide_need_search"
    /\ state.error_message = "decide_need_search error"
    /\ state.need_search
    /\ node = "web_search"

\* the run whose last node let an exception escape
Crashed ==
    /\ executed # << >>
    /\ executed[Len(executed)].status = "raised"

\* C39: an exception raised while the graph runs does not leave
\* process_dataset: the call returns a result with success false and
\* status failed, which process_dataset_task turns into False, the value
\* that sends the path to handle_failed_task.
C39_CrashBecomesFailedResult ==
    /\ node = "raised" => Crashed /\ result = NoResult
    /\ (node = "returned" /\ Crashed) =>
          /\ result.success = FALSE
          /\ result.status = FAILED
          /\ result.error_message = "Workflow execution failed"
          /\ task_result(IF result.status = SUCCESS THEN "success"
                         ELSE "failed") = "done_fail"

\* a node raised and process_dataset has returned its result
C39_Witness ==
    /\ node = "returned"
    /\ Crashed
    /\ result.status = FAILED
    /\ ~result.success

\* the positions of a run at which scan_and_parse has returned
AfterScan ==
    { Stages[i] : i \in 2..Len(Stages) } \cup {"END", "raised"}

\* the positions of a run at which decide_need_search has returned
AfterDecide ==
    { Stages[i] : i \in 5..Len(Stages) } \cup {"END", "raised"}

\* C40: once scan_and_parse has returned, no step of the run changes
\* dataset_path, processing_id, files, total_size or cache_key; once
\* decide_need_search has returned, no step changes need_search; and
\* retry_count keeps its initial value 0 through every step of every run.
C40_FrozenFields ==
    [][ /\ node \in AfterScan =>
              /\ state'.dataset_path = state.dataset_path
              /\ state'.processing_id = state.processing_id
              /\ state'.files = state.files
              /\ state'.total_size = state.total_size
              /\ state'.cache_key = state.cache_key
        /\ node \in AfterDecide =>
              state'.need_search = state.need_search
        /\ state.retry_count = 0
        /\ state'.retry_count = 0
      ]_vars

\* a run that scanned a directory, chose to search and went through every
\* later stage still carries what the scan and the decision set
C40_Witness ==
    /\ node = "END"
    /\ Len(executed) = Len(Stages)
    /\ routed = "true"
    /\ state.need_search
    /\ state.files = "scanned"
    /\ state.total_size = 1
    /\ state.cache_key = "key"
    /\ state.processing_id = next_id
    /\ state.retry_count = 0

(***************************************************************************)
(* Part 4.  Properties of the monitor                                      *)
(***************************************************************************)
Running == {j \in Jobs : jobs[j].st = "running"}

\* the runs of path p whose backoff sleep or retry_queue.put is pending
PendingRetries(p) ==
    {j \in Jobs : jobs[j].path = p /\ jobs[j].st \in {"sleeping", "retry_put"}}

\* C6: the number of pipeline runs executing at once never exceeds
\* max_concurrent, and every run gives its slot back when it ends, by success,
\* failure or exception: the free permits and the executing runs always add up
\* to max_concurrent.
C6_ConcurrencyBound ==
    /\ Cardinality(Running) <= max_concurrent
    /\ semaphore >= 0
    /\ semaphore + Cardinality(Running) = max_concurrent

\* every slot is taken while a failed run, its slot given back, sleeps
C6_Witness ==
    /\ Cardinality(Running) = max_concurrent
    /\ semaphore = 0
    /\ \E j \in Jobs : jobs[j].st = "sleeping"

\* the bookkeeping of handle_failed_task: the counter of a path is capped
\* at max_retries, every counted failure is a pending or a delivered
\* re-submission, and a path is given up only with the counter at the cap
RetryAccounting ==
    \A p \in Paths :
        /\ failed_tasks[p] <= max_retries
        /\ retries[p] + Cardinality(PendingRetries(p)) = failed_tasks[p]
        /\ p \in abandoned => failed_tasks[p] = max_retries

\* C7: failed_tasks[path] never exceeds max_retries, and a path whose runs
\* failed max_retries + 1 times in a row (it was given up and no run of it
\* ever succeeded) is not put on the retry queue again after the last of
\* those failures.
C7_RetryBound ==
    [][\A p \in Paths :
          /\ failed_tasks'[p] <= max_retries
          /\ (p \in abandoned /\ p \notin succeeded) => retries'[p] = retries[p]
      ]_vars

\* C8: when a run of a path succeeds, the failure counter of the path is
\* reset to zero.
C8_SuccessResetsCounter ==
    [][\A j \in Jobs :
          (jobs[j].st = "done_ok" /\ jobs'[j].st = "free")
              => failed_tasks'[jobs[j].path] = 0]_vars

\* the path fired less than the cooldown ago
InWindow(p) == last_processed[p] # -1 /\ now - last_processed[p] < cooldown_time

\* C9: a creation event for a path is dropped if and only if the path fired
\* less than the cooldown ago, so two events of a path less than a cooldown
\* apart yield exactly one submission to the task queue; a dropped event does
\* not extend the window, and the window of any other path is untouched.
C9_Dedup ==
    [][\A p \in Paths :
          on_created(p) =>
              /\ IF InWindow(p)
                 THEN task_queue' = task_queue /\ last_processed' = last_processed
                 ELSE task_queue' = Append(task_queue, p)
              /\ \A q \in Paths \ {p} : last_processed'[q] = last_processed[q]
      ]_vars

\* C10: no producer ever waits on a full queue: neither process_retry_queue
\* putting a path back on the task queue nor handle_failed_task putting a
\* path on the retry queue is ever suspended in its put.
C10_ProducerNeverBlocks ==
    /\ rq # "put"
    /\ \A j \in Jobs : jobs[j].st # "retry_put"

\* the process_dataset_task tasks of path p that have not resolved
UnresolvedOf(p) ==
    {j \in Jobs : jobs[j].path = p /\ jobs[j].st \in {"waiting", "running"}}

\* C11: a path is put on the retry queue only when every earlier attempt of
\* the path has resolved, so that a retry is never in flight together with
\* a prior attempt of the path that is still running.
C11_RetryAfterResolved ==
    [][\A p \in Paths :
          retries'[p] # retries[p] => UnresolvedOf(p) = {}]_vars

\* C12: every attempt, a retry included, starts at scan_and_parse on a
\* freshly created DatasetState: status pending, no files, preliminary,
\* meta or artifacts, no error, and a processing_id of its own; nothing of
\* the attempt before it is resumed or reused.
C12_FreshStatePerAttempt ==
    [][next_id' # next_id =>
          /\ node' = "scan_and_parse"
          /\ executed' = << >>
          /\ state'.status = PENDING
          /\ state'.files = "empty"
          /\ state'.preliminary = "empty"
          /\ state'.web_search = "empty"
          /\ state'.meta = "empty"
          /\ state'.artifacts = "empty"
          /\ state'.error_message = NoMessage
          /\ state'.need_search = FALSE
          /\ state'.errors = << >>
          /\ state'.processing_id # state.processing_id
      ]_vars

\* a second attempt has begun at scan_and_parse with a pending state, after
\* a first attempt ran
C12_Witness ==
    /\ next_id = 2
    /\ node = "scan_and_parse"
    /\ state.status = PENDING
    /\ state.processing_id = 2

\* process_retry_queue hands path p to the task queue in this step
Resubmitted(p) ==
    \/ /\ rq = "get"
       /\ retry_queue # << >>
       /\ Head(retry_queue) = p
       /\ retry_queue' = Tail(retry_queue)
       /\ task_queue' = Append(task_queue, p)
    \/ /\ rq = "put"
       /\ rq_item = p
       /\ rq' # "put"
       /\ task_queue' = Append(task_queue, p)

\* C13: a failed run ends as a scheduled retry or as a given-up path, and a
\* path that was given up gets no further automatic attempt: the retry loop
\* never hands a given-up path to the task queue again.
C13_AbandonedIsFinal ==
    [][\A p \in Paths : p \in abandoned => ~Resubmitted(p)]_vars

\* C21: at most one run of a path is in flight (waiting for the semaphore or
\* executing) at any time, whatever the interleaving of events, retries and
\* completions, and the active_tasks entry of a task in flight is that
\* task: no other task's bookkeeping removes or replaces it.
C21_OneRunPerPath ==
    /\ \A p \in Paths : Cardinality(UnresolvedOf(p)) <= 1
    /\ \A j \in Jobs :
          jobs[j].st \in {"waiting", "running"}
              => active_tasks[jobs[j].path] = j

\* the step is taken by the observer thread: on_created is the only code
\* that thread runs
ObserverThreadStep == \E p \in Paths : on_created(p)

\* C22: the task queue and the failure counters are changed only by steps
\* of the event loop; a step of the observer thread changes neither, and
\* it never waits.
C22_LoopOwnsSharedState ==
    [][ObserverThreadStep =>
          /\ task_queue' = task_queue
          /\ failed_tasks' = failed_tasks]_vars

\* the delay the claim states for a failure counter of k
StatedDelay(k) == CASE k = 0 -> 60 [] k = 1 -> 120 [] k = 2 -> 240

\* the run in slot j puts its path on the retry queue in this step
ReEnqueues(j) ==
    /\ jobs[j].st \in {"sleeping", "retry_put"}
    /\ jobs'[j].st = "free"
    /\ retry_queue' = Append(retry_queue, jobs[j].path)

\* C23: a failed run of a path whose counter is k < max_retries raises the
\* counter by exactly one and sleeps 2^k * 60 seconds (60, 120, 240)
\* before the path is put on the retry queue, and the retry queue takes a
\* path from nothing but such a sleep; a failed run with the counter at
\* max_retries changes neither the counter nor any queue.
C23_BackoffSchedule ==
    [][/\ \A j \in Jobs :
             (jobs[j].st = "done_fail" /\ jobs'[j] # jobs[j]) =>
                 LET p == jobs[j].path
                     k == failed_tasks[p]
                 IN  /\ task_queue' = task_queue
                     /\ retry_queue' = retry_queue
                     /\ \A q \in Paths \ {p} : failed_tasks'[q] = failed_tasks[q]
                     /\ IF k < max_retries
                        THEN /\ failed_tasks'[p] = k + 1
                             /\ jobs'[j].st = "sleeping"
                             /\ jobs'[j].delay = StatedDelay(k)
                        ELSE /\ failed_tasks'[p] = k
                             /\ jobs'[j].st = "free"
       /\ Len(retry_queue') > Len(retry_queue) => \E j \in Jobs : ReEnqueues(j)
       /\ failed_tasks' # failed_tasks =>
             \E j \in Jobs : jobs[j].st = "done_fail" /\ jobs'[j].st = "sleeping"
      ]_vars

\* the third failure of a path is waiting out its 240 seconds
C23_Witness ==
    \E j \in Jobs :
        /\ jobs[j].st = "sleeping"
        /\ jobs[j].delay = 240
        /\ failed_tasks[jobs[j].path] = 3

\* C24: once stop() has returned no run is in flight, and none is started
\* later: not for a path left in the task queue, not for a path taken off
\* the queue while stop() was in progress, not for a retry whose backoff
\* sleep was pending.
C24_QuiescentAfterStop ==
    stop_pc = "returned" =>
        \A j \in Jobs : jobs[j].st \notin {"waiting", "running"}

\* the paths now in the monitor: queued, being handed over, or held by a
\* task
InSystem ==
    Len(task_queue) + Len(retry_queue) + (IF rq = "put" THEN 1 ELSE 0)
       + Cardinality({j \in Jobs : jobs[j].st # "free"})

\* a creation event while the monitor holds fewer paths than it has task
\* slots in the model
OnCreatedInBounds == InSystem < MaxJobs /\ OnCreated

\* the monitor in service, never stopped, within one cooldown window (a
\* path enters by one creation event and again by each of its retries),
\* with no more paths in it than task slots, so that process_queue always
\* finds a slot as it does in the code, where the number of tasks is
\* unbounded
LNext ==
    \/ Start
    \/ OnCreatedInBounds
    \/ ProcessQueueGet
    \/ \E j \in Jobs : TaskAcquire(j)
    \/ \E j \in Jobs : TaskReturn(j)
    \/ \E j \in Jobs : CleanupSuccess(j)
    \/ \E j \in Jobs : HandleFailedTask(j)
    \/ \E j \in Jobs : SleepDone(j)
    \/ \E j \in Jobs : RetryPutDone(j)
    \/ RetryQueueGet
    \/ TaskQueuePutDone

\* the event loop resumes every coroutine that can go on, every run and
\* every sleep ends, and a waiter on the semaphore or on a full queue gets
\* its turn
Fairness ==
    /\ WF_vars(ProcessQueueGet)
    /\ WF_vars(RetryQueueGet)
    /\ SF_vars(TaskQueuePutDone)
    /\ \A j \in Jobs :
          /\ SF_vars(TaskAcquire(j))
          /\ WF_vars(TaskReturn(j))
          /\ WF_vars(CleanupSuccess(j))
          /\ WF_vars(HandleFailedTask(j))
          /\ WF_vars(SleepDone(j))
          /\ SF_vars(RetryPutDone(j))

SpecLive == Init /\ [][LNext]_vars /\ Fairness

InBackoff == {j \in Jobs : jobs[j].st \in {"sleeping", "retry_put"}}

\* C26: a path in its retry backoff holds no permit of the semaphore: the
\* permits taken are those of the executing runs alone, so that with any
\* number of paths in backoff max_concurrent others can still run.
C26_BackoffHoldsNoSlot ==
    InBackoff # {} =>
        /\ max_concurrent - semaphore = Cardinality(Running)
        /\ Running \cap InBackoff = {}

\* max_concurrent runs execute while a different path is in backoff
C26_Witness ==
    /\ InBackoff # {}
    /\ Cardinality(Running) = max_concurrent
    /\ \A j \in Running, k \in InBackoff : jobs[j].path # jobs[k].path

\* C27: a creation event that records the fire time of a path in
\* last_processed puts the path on the task queue in the same step: an
\* event dropped on a full queue starts no cooldown window.
C27_RecordedMeansQueued ==
    [][\A p \in Paths :
          last_processed'[p] # last_processed[p]
              => task_queue' = Append(task_queue, p)]_vars


\* C39 in the monitor: a run of process_dataset_task always resolves with
\* True or False, whatever process_dataset did; a run that resolved False
\* goes through handle_failed_task (a retry is scheduled or the path is
\* given up); neither step moves process_queue or process_retry_queue out
\* of its loop.
C39_FailedRunRoutedToRetry ==
    [][\A j \in Jobs :
          /\ (jobs[j].st = "running" /\ jobs'[j].st # "running")
                => /\ jobs'[j].st \in {"done_ok", "done_fail"}
                   /\ <<pq, rq, running>>' = <<pq, rq, running>>
          /\ (jobs[j].st = "done_fail" /\ jobs'[j] # jobs[j])
                => /\ \/ /\ jobs'[j].st = "sleeping"
                         /\ failed_tasks'[jobs[j].path]
                               = failed_tasks[jobs[j].path] + 1
                      \/ /\ jobs'[j] = FreeJob
                         /\ jobs[j].path \in abandoned'
                   /\ <<pq, rq, running>>' = <<pq, rq, running>>
      ]_vars

(***************************************************************************)
(* Part 5.  write_outputs on a dataset directory: nodes/write_outputs.py   *)
(***************************************************************************)
\* the longest artifact content, in characters
MaxContentLen == 2
\* write_outputs runs on one directory
MaxWrites == 2

\* a character is an ordinary one, a carriage return or a line feed
Chars == {"x", "CR", "LF"}

Contents == UNION {[1..n -> Chars] : n \in 1..MaxContentLen}

\* the artifacts generate_markdown prepares, in the order of the dict
Formats == << "markdown", "json" >>

Filename(format_name) == IF format_name = "markdown" THEN "meta.md" ELSE "meta.json"

Filenames == {Filename(Formats[i]) : i \in 1..Len(Formats)}

Absent == [exists |-> FALSE, data |-> << >>]

\* os.linesep of the platform
linesep(platform) == IF platform = "nt" THEN << "CR", "LF" >> ELSE << "LF" >>

\* open(file_path, 'w', encoding='utf-8') and f.write(content): text mode
\* writes every line feed as os.linesep and every other character as it is
RECURSIVE write_text(_, _)
write_text(content, platform) ==
    IF content = << >> THEN << >>
    ELSE (IF Head(content) = "LF" THEN linesep(platform) ELSE << Head(content) >>)
             \o write_text(Tail(content), platform)

\* open(file_path, 'r', encoding='utf-8') and f.read(): text mode reads
\* CR LF and a lone CR as one line feed
RECURSIVE read_text(_)
read_text(data) ==
    IF data = << >> THEN << >>
    ELSE IF Head(data) = "CR"
         THEN IF Len(data) >= 2 /\ data[2] = "LF"
              THEN << "LF" >> \o read_text(Tail(Tail(data)))
              ELSE << "LF" >> \o read_text(Tail(data))
         ELSE << Head(data) >> \o read_text(Tail(data))

\* _content_unchanged: the sha256 of what is read back equals the sha256 of
\* the new content
content_unchanged(file, new_content) == read_text(file.data) = new_content

\* "if file_path.exists(): if config.output.backup_existing:": the test
\* that precedes _backup_existing_file
backup_wanted(file) == file.exists /\ wo.backup_existing

\* _backup_existing_file: shutil.copy2 of the file to a backup beside it;
\* b holds, for each artifact file, the copies made of it
backup_existing_file(b, filename, file) ==
    [b EXCEPT ![filename] = Append(@, file.data)]

\* one pass of the loop over artifacts.items(): d is the directory so far
\* and b its backups
WriteArtifact(d, b, format_name) ==
    LET filename == Filename(format_name)
        content == wo.artifacts[format_name]
        backups == IF backup_wanted(d[filename])
                   THEN backup_existing_file(b, filename, d[filename])
                   ELSE b
    IN IF d[filename].exists /\ content_unchanged(d[filename], content)
       THEN [disk |-> d, backups |-> backups,
             entry |-> [filename |-> filename, status |-> "unchanged"]]
       ELSE IF wo.writable[filename]
       THEN [disk |-> [d EXCEPT ![filename] =
                          [exists |-> TRUE,
                           data |-> write_text(content, wo.platform)]],
             backups |-> backups,
             entry |-> [filename |-> filename, status |-> "written"]]
       ELSE [disk |-> d, backups |-> backups,
             entry |-> [filename |-> filename, status |-> "failed"]]

\* the loop over artifacts.items()
RECURSIVE WriteAll(_, _, _, _)
WriteAll(d, b, formats, written_files) ==
    IF formats = << >>
    THEN [disk |-> d, backups |-> b, written_files |-> written_files]
    ELSE LET r == WriteArtifact(d, b, Head(formats))
         IN WriteAll(r.disk, r.backups, Tail(formats),
                     Append(written_files, r.entry))

success_count(written_files) ==
    Cardinality({i \in 1..Len(written_files) :
                    written_files[i].status \in {"written", "unchanged"}})

\* a result that needs every artifact to end written or unchanged
WriteStatus_needs_all(written_files) ==
    IF success_count(written_files) < Len(written_files) THEN FAILED ELSE SUCCESS

\* the status write_outputs returns for its written_files
WriteStatus(written_files) ==
    IF success_count(written_files) = 0 THEN FAILED ELSE SUCCESS

\* a dataset directory, the artifacts of a run, config.output.backup_existing
\* and the permissions on the artifact files
WriteInit ==
    wo \in [ runs : {0},
             platform : {"posix", "nt"},
             backup_existing : BOOLEAN,
             backups : {[f \in Filenames |-> << >>]},
             backups_before : {[f \in Filenames |-> << >>]},
             artifacts : [{Formats[i] : i \in 1..Len(Formats)} -> Contents],
             writable : [Filenames -> BOOLEAN],
             disk : [Filenames -> {Absent, [exists |-> TRUE, data |-> << "x" >>]}],
             before : {[f \in Filenames |-> Absent]},
             written_files : {<< >>},
             first_files : {<< >>},
             status : {PROCESSING} ]

\* write_outputs with a non-empty artifacts dict on an existing directory
WriteOutputsRun ==
    /\ wo.runs < MaxWrites
    /\ LET r == WriteAll(wo.disk, wo.backups, Formats, << >>)
       IN wo' = [wo EXCEPT !.runs = @ + 1,
                           !.before = wo.disk,
                           !.disk = r.disk,
                           !.backups_before = wo.backups,
                           !.backups = r.backups,
                           !.written_files = r.written_files,
                           !.first_files = IF wo.runs = 0 THEN r.written_files ELSE @,
                           !.status = WriteStatus(r.written_files)]
    /\ UNCHANGED <<pvars, mvars, fn>>

InitWrite == PInit /\ MInit /\ fn = NoCall /\ WriteInit

SpecWrite == InitWrite /\ [][WriteOutputsRun]_vars

AllEntries(written_files, statuses) ==
    \A i \in 1..Len(written_files) : written_files[i].status \in statuses

\* C14: when write_outputs runs twice in a row with the same artifacts on
\* the same directory and the first run wrote every artifact, the second run
\* writes no artifact file, reports every artifact as unchanged and returns
\* success.
C14_PersistIdempotent ==
    (wo.runs >= 2 /\ AllEntries(wo.first_files, {"written", "unchanged"})) =>
        /\ wo.disk = wo.before
        /\ AllEntries(wo.written_files, {"unchanged"})
        /\ wo.status = SUCCESS

C28_BackupOnlyOnOverwrite ==
    wo.runs >= 1 =>
        \A i \in 1..Len(wo.written_files) :
            LET filename == wo.written_files[i].filename
                backed_up == wo.backups[filename] # wo.backups_before[filename]
            IN  /\ backed_up =>
                      /\ wo.backup_existing
                      /\ wo.before[filename].exists
                      /\ wo.written_files[i].status # "unchanged"
                /\ wo.written_files[i].status = "unchanged" =>
                      wo.disk[filename] = wo.before[filename]

\* the parts of C28 the code keeps: no backup of a file that did not
\* exist, none with backup_existing false, and every backup is a copy of
\* the file as it was
C28_BackupIsCopyOfExisting ==
    wo.runs >= 1 =>
        \A f \in Filenames :
            wo.backups[f] # wo.backups_before[f] =>
                /\ wo.backup_existing
                /\ wo.before[f].exists
                /\ wo.backups[f] = Append(wo.backups_before[f], wo.before[f].data)


(***************************************************************************)
(* Part 6.  Helper functions on their own arguments                        *)
(***************************************************************************)
\* a confidence_score: the key is absent, holds a number (in tenths, -1 and
\* 11 standing for numbers outside 0..1), or holds something that is no
\* number (null, a string)
ConfidenceValues ==
    {[kind |-> "absent", tenths |-> 0], [kind |-> "nonnumeric", tenths |-> 0]}
    \cup {[kind |-> "number", tenths |-> n] : n \in -1..11}

\* a dataset name: empty or None, a name with none of the marks, a name
\* holding an indicator token, a name matching v\d+|version|20\d{2}
NameKinds == {"empty", "plain", "indicator", "version"}

\* preliminary["description"]: absent, null, text without or with an
\* indicator token
DescriptionKinds == {"absent", "null", "plain", "indicator"}

\* the part of preliminary decide_need_search reads; TRUE for a key field
\* says it is present and not empty
Preliminaries ==
    [ source : BOOLEAN, source_url : BOOLEAN, license : BOOLEAN,
      citation : BOOLEAN, confidence_score : ConfidenceValues,
      description : DescriptionKinds ]

\* len(missing_info)
missing_info(preliminary) ==
    Cardinality({k \in {"source", "source_url", "license", "citation"} :
                    ~preliminary[k]})

\* preliminary.get("confidence_score", 0.0) < 0.7; the comparison raises
\* TypeError on a value that is no number
low_confidence(preliminary) ==
    LET c == preliminary.confidence_score
    IN CASE c.kind = "absent" -> "true"
         [] c.kind = "nonnumeric" -> "raises"
         [] c.kind = "number" -> IF c.tenths < 7 THEN "true" ELSE "false"

\* _is_likely_public_dataset; .lower() raises AttributeError on a null
\* description
is_likely_public_dataset(dataset_name, preliminary) ==
    IF dataset_name = "empty" THEN "false"
    ELSE IF preliminary.description = "null" THEN "raises"
    ELSE IF dataset_name = "indicator" \/ preliminary.description = "indicator"
         THEN "true"
    ELSE IF dataset_name = "version" THEN "true"
    ELSE "false"

\* need_search as decide_need_search returns it: the decision, or True from
\* the except block
need_search_of(dataset_name, preliminary) ==
    LET low == low_confidence(preliminary)
        known == is_likely_public_dataset(dataset_name, preliminary)
    IN IF low = "raises" \/ known = "raises"
       THEN TRUE
       ELSE NeedSearchDecision(missing_info(preliminary), low = "true",
                               known = "true")

\* decide_need_search on a dataset name and a preliminary
DecideNeedSearch ==
    \E dataset_name \in NameKinds, preliminary \in Preliminaries :
        /\ fn = NoCall
        /\ fn' = [call |-> "decide_need_search",
                  input |-> [dataset_name |-> dataset_name,
                             preliminary |-> preliminary],
                  output |-> need_search_of(dataset_name, preliminary)]
        /\ UNCHANGED <<pvars, mvars, wo>>

\* C16: whenever the preliminary confidence_score is below 0.7, or absent,
\* decide_need_search returns need_search = true, whatever the other
\* fields of the state hold.
C16_LowConfidenceSearches ==
    fn.call = "decide_need_search" =>
        LET c == fn.input.preliminary.confidence_score
        IN (c.kind = "absent" \/ (c.kind = "number" /\ c.tenths < 7))
               => fn.output = TRUE

\* confidence 0.6 with no field missing and no mark of a public dataset
C16_Witness ==
    /\ fn.call = "decide_need_search"
    /\ fn.input.preliminary.confidence_score = [kind |-> "number", tenths |-> 6]
    /\ missing_info(fn.input.preliminary) = 0
    /\ fn.input.dataset_name = "plain"
    /\ fn.input.preliminary.description = "plain"
    /\ fn.output = TRUE

\* the public-dataset heuristic as the routing rule words it: the name or
\* the description holds an indicator token, or the name matches the
\* version/year pattern
MatchesPublicHeuristic(dataset_name, preliminary) ==
    \/ dataset_name \in {"indicator", "version"}
    \/ preliminary.description = "indicator"

\* C20: decide_need_search returns need_search = true if and only if two or
\* more of source, source_url, license, citation are missing, or the
\* confidence_score is below 0.7, or the name or description matches the
\* public-dataset heuristic; when none of the three holds it returns false.
C20_NeedSearchExactly ==
    fn.call = "decide_need_search" =>
        LET preliminary == fn.input.preliminary
            c == preliminary.confidence_score
        IN fn.output <=>
              \/ missing_info(preliminary) >= 2
              \/ c.kind = "absent" \/ (c.kind = "number" /\ c.tenths < 7)
              \/ MatchesPublicHeuristic(fn.input.dataset_name, preliminary)

\* the fields _parse_llm_response requires besides confidence_score
RequiredFields == {"description", "modality", "use_case", "domain"}

\* an LLM response: whether it is JSON text of an object, the required
\* fields it has, its confidence_score and its needs_web_search
Responses ==
    [ json : BOOLEAN, fields : SUBSET RequiredFields,
      confidence_score : ConfidenceValues,
      needs_web_search : {"absent", "true", "false"} ]

NotParsed == [parsed |-> FALSE, confidence_score |-> 0, needs_web_search |-> FALSE]

\* _parse_llm_response: None, or the result with its confidence repaired
parse_llm_response(response) ==
    IF ~response.json THEN NotParsed
    ELSE IF response.fields # RequiredFields
            \/ response.confidence_score.kind = "absent"
    THEN NotParsed
    ELSE [ parsed |-> TRUE,
           confidence_score |->
               IF response.confidence_score.kind = "nonnumeric"
                  \/ response.confidence_score.tenths < 0
                  \/ response.confidence_score.tenths > 10
               THEN 5
               ELSE response.confidence_score.tenths,
           needs_web_search |-> response.needs_web_search = "true" ]

\* the status preliminary_analysis returns for what the parse gave
analysis_status(parsed_result) ==
    IF parsed_result.parsed THEN PROCESSING ELSE FAILED

\* preliminary_analysis from the LLM response on: parse and return
ParseResponse ==
    \E response \in Responses :
        /\ fn = NoCall
        /\ fn' = [call |-> "parse_llm_response",
                  input |-> response,
                  output |-> [result |-> parse_llm_response(response),
                              status |-> analysis_status(parse_llm_response(response))]]
        /\ UNCHANGED <<pvars, mvars, wo>>

\* C17: a response that is valid JSON with every other required field but
\* without confidence_score is accepted: the confidence becomes 0.5 and
\* preliminary_analysis does not return status failed.
C17_MissingConfidenceAccepted ==
    (/\ fn.call = "parse_llm_response"
     /\ fn.input.json
     /\ fn.input.fields = RequiredFields
     /\ fn.input.confidence_score.kind = "absent") =>
        /\ fn.output.status # FAILED
        /\ fn.output.result.parsed
        /\ fn.output.result.confidence_score = 5

(***************************************************************************)
(* validate_and_postprocess: the enumeration fields.  A string is a        *)
(* sequence of atoms (a word, a separator, a blank); an enumeration member *)
(* is such a sequence too, so that "contains" is decided on the text.      *)
(* The Chinese members are written in pinyin.                              *)
(***************************************************************************)
MaxValueLen == 3

ValueAtoms == {"text", "TEXT", "NONE", "daima", "wenben", "|", " ", "xyz"}

ValueStrings == UNION {[1..n -> ValueAtoms] : n \in 0..MaxValueLen}

EnumFields == <<"modality", "use_case", "domain", "rating", "pii_risk",
                "access_level">>

EnumFieldNames == {EnumFields[i] : i \in 1..Len(EnumFields)}

DataModality ==
    << <<"ziranyuyan", "wenben">>, <<"daima">>, <<"liuliang">>, <<"rizhi">>,
       <<"jiegouhua/biaoge">>, <<"erjinzhi">>, <<"tuxiang">>, <<"yinpin">>, <<"shipin">>,
       <<"duomotai">> >>

UseCase ==
    << <<"moxing-yuxunlian">>, <<"moxing-weitiao">>, <<"moxing-weitiao", "(han-siweilian)">>,
       <<"moxing-pingce">>, <<"qianghua-xuexi">>, <<"fenlei/huigui">>, <<"shiti-shibie">>,
       <<"shuju-fenxi">>, <<"hunhe-yongtu">> >>

Domain == << <<"jichu-tongyong">>, <<"wangluo-gongfang">>, <<"anquan-renzhi">>, <<"tixihua-fangyu">> >>

Rating == << <<"jichu">>, <<"jinjie">>, <<"gaoji">>, <<"zhuanyong-siyou">> >>

PIIRisk == << <<"none">>, <<"low">>, <<"medium">>, <<"high">> >>

AccessLevel == << <<"public">>, <<"internal">>, <<"private">> >>

\* [e.value for e in enum_class], in declaration order
valid_values_of(field) ==
    CASE field = "modality"     -> DataModality
      [] field = "use_case"     -> UseCase
      [] field = "domain"       -> Domain
      [] field = "rating"       -> Rating
      [] field = "pii_risk"     -> PIIRisk
      [] field = "access_level" -> AccessLevel

ValidSet(field) ==
    {valid_values_of(field)[i] : i \in 1..Len(valid_values_of(field))}

\* _get_default_enum_value
get_default_enum_value(field) ==
    CASE field = "modality"     -> <<"daima">>
      [] field = "use_case"     -> <<"moxing-pingce">>
      [] field = "domain"       -> <<"jichu-tongyong">>
      [] field = "rating"       -> <<"jichu">>
      [] field = "pii_risk"     -> <<"none">>
      [] field = "access_level" -> <<"public">>

\* str.lower() on one atom and on a string
LowerAtom(a) ==
    CASE a = "TEXT" -> "text"
      [] a = "NONE" -> "none"
      [] a = "MNIST" -> "mnist"
      [] OTHER      -> a

Lower(s) == [i \in 1..Len(s) |-> LowerAtom(s[i])]

\* s in t
IsSubstring(s, t) ==
    \E i \in 0..(Len(t) - Len(s)) : SubSeq(t, i + 1, i + Len(s)) = s

\* str.strip()
RECURSIVE strip(_)
strip(s) ==
    IF s = <<>> THEN s
    ELSE IF Head(s) = " " THEN strip(Tail(s))
    ELSE IF s[Len(s)] = " " THEN strip(SubSeq(s, 1, Len(s) - 1))
    ELSE s

\* [part.strip() for part in value.split('|')]
RECURSIVE split_parts(_, _)
split_parts(s, part) ==
    IF s = <<>> THEN <<strip(part)>>
    ELSE IF Head(s) = "|" THEN <<strip(part)>> \o split_parts(Tail(s), <<>>)
    ELSE split_parts(Tail(s), Append(part, Head(s)))

\* the value None, which no string equals
NoMatch == <<>>

keyword_mapping ==
    << <<"text", <<"ziranyuyan", "wenben">> >>, <<"code", <<"daima">> >>,
       <<"image", <<"tuxiang">> >>, <<"audio", <<"yinpin">> >>,
       <<"video", <<"shipin">> >>, <<"table", <<"jiegouhua/biaoge">> >>,
       <<"training", <<"moxing-yuxunlian">> >>, <<"finetune", <<"moxing-weitiao">> >>,
       <<"eval", <<"moxing-pingce">> >>, <<"basic", <<"jichu">> >>,
       <<"advanced", <<"gaoji">> >>, <<"cyber", <<"wangluo-gongfang">> >>,
       <<"security", <<"anquan-renzhi">> >> >>

FirstIndex(S) == CHOOSE i \in S : \A j \in S : i <= j

InValues(v, valid_values) == \E i \in 1..Len(valid_values) : valid_values[i] = v

\* the three matching loops of _fuzzy_match_enum_value, on the whole value
match_value(value, valid_values) ==
    LET value_lower == Lower(value)
        exact == {i \in 1..Len(valid_values) :
                     Lower(valid_values[i]) = value_lower}
        contains == {i \in 1..Len(valid_values) :
                        \/ IsSubstring(value_lower, Lower(valid_values[i]))
                        \/ IsSubstring(Lower(valid_values[i]), value_lower)}
        keyword == {k \in 1..Len(keyword_mapping) :
                       /\ \E i \in 1..Len(value_lower) :
                             value_lower[i] = keyword_mapping[k][1]
                       /\ InValues(keyword_mapping[k][2], valid_values)}
    IN  IF exact # {} THEN valid_values[FirstIndex(exact)]
        ELSE IF contains # {} THEN valid_values[FirstIndex(contains)]
        ELSE IF keyword # {} THEN keyword_mapping[FirstIndex(keyword)][2]
        ELSE NoMatch

\* _fuzzy_match_enum_value applied to each part in turn: the first result
first_part_match(parts, valid_values) ==
    LET hits == {i \in 1..Len(parts) :
                    /\ parts[i] # <<>>
                    /\ match_value(parts[i], valid_values) # NoMatch}
    IN  IF hits = {} THEN NoMatch
        ELSE match_value(parts[FirstIndex(hits)], valid_values)

fuzzy_match_enum_value(value, valid_values) ==
    IF value = <<>> THEN NoMatch
    ELSE IF /\ \E i \in 1..Len(value) : value[i] = "|"
            /\ first_part_match(split_parts(value, <<>>), valid_values)
                  # NoMatch
         THEN first_part_match(split_parts(value, <<>>), valid_values)
    ELSE match_value(value, valid_values)

\* what a field of meta may hold: nothing, null, a string, a list
MetaAbsent == [kind |-> "absent", s |-> <<>>]

MetaValues ==
    {MetaAbsent, [kind |-> "null", s |-> <<>>], [kind |-> "list", s |-> <<>>]}
       \cup {[kind |-> "str", s |-> s] : s \in ValueStrings}

Str(s) == [kind |-> "str", s |-> s]

\* _clean_and_normalize_meta on one value
clean_value(v) ==
    IF v.kind = "null" THEN MetaAbsent
    ELSE IF v.kind = "str"
         THEN IF strip(v.s) = <<>> THEN MetaAbsent ELSE Str(strip(v.s))
    ELSE v

\* _validate_and_fix_enum_values raises on a value that is not a string:
\* it has no lower()
enum_fix_raises(meta) ==
    \E f \in EnumFieldNames : meta[f].kind = "list"

\* _validate_and_fix_enum_values, the loop over enum_fields
validate_and_fix_enum_values(meta) ==
    [f \in EnumFieldNames |->
        IF meta[f].kind # "str" THEN meta[f]
        ELSE IF InValues(meta[f].s, valid_values_of(f)) THEN meta[f]
        ELSE IF fuzzy_match_enum_value(meta[f].s, valid_values_of(f)) # NoMatch
             THEN Str(fuzzy_match_enum_value(meta[f].s, valid_values_of(f)))
        ELSE Str(get_default_enum_value(f))]

\* DatasetMetadata declares modality, use_case and domain without a default
RequiredEnumFields == {"modality", "use_case", "domain"}

\* _validate_with_pydantic and _fix_validation_errors: a required field
\* that is missing is reported and set to its default
fix_validation_errors(meta) ==
    [f \in EnumFieldNames |->
        IF meta[f].kind = "absent" /\ f \in RequiredEnumFields
        THEN Str(get_default_enum_value(f))
        ELSE meta[f]]

\* _create_fallback_metadata, its enumeration fields
fallback_metadata ==
    [f \in EnumFieldNames |->
        IF f = "use_case" THEN Str(<<"shuju-fenxi">>)
        ELSE Str(get_default_enum_value(f))]

\* the meta validate_and_postprocess returns, enum validation enabled
validated_meta(meta) ==
    LET cleaned_meta == [f \in EnumFieldNames |-> clean_value(meta[f])]
    IN  IF enum_fix_raises(cleaned_meta) THEN fallback_metadata
        ELSE fix_validation_errors(validate_and_fix_enum_values(cleaned_meta))

\* the return statement validate_and_postprocess leaves by: the except
\* block, the branch after a failed pydantic validation, or the valid one
validate_return(meta) ==
    LET cleaned_meta == [f \in EnumFieldNames |-> clean_value(meta[f])]
        fixed == validate_and_fix_enum_values(cleaned_meta)
    IN  IF enum_fix_raises(cleaned_meta) THEN "exception"
        ELSE IF fix_validation_errors(fixed) # fixed THEN "fixed"
        ELSE "valid"

\* the other fields hold a member that is neither default nor fallback
OtherValue(f) == Str(valid_values_of(f)[Len(valid_values_of(f))])

ValidateAndPostprocess ==
    /\ fn = NoCall
    /\ \E field \in EnumFieldNames, v \in MetaValues :
          LET meta == [f \in EnumFieldNames |->
                          IF f = field THEN v ELSE OtherValue(f)]
          IN  fn' = [call |-> "validate_and_postprocess",
                     field |-> field,
                     input |-> meta,
                     output |-> validated_meta(meta),
                     update |-> validate_and_postprocess(
                                    DatasetState(1), validate_return(meta))]
    /\ UNCHANGED <<pvars, mvars, wo>>

\* the member the stated order selects for a cleaned value
ByOrder(f, v) ==
    LET m == IF v.kind = "str" THEN match_value(v.s, valid_values_of(f))
             ELSE NoMatch
    IN  IF m # NoMatch THEN m ELSE get_default_enum_value(f)

\* C18: after validate_and_postprocess every enumeration field that meta
\* held holds a valid member, the one selected by exact match, else
\* substring match, else the keyword table, else the default; the modality
\* "text" becomes the natural-language-text member.
C18_EnumFuzzyOrder ==
    fn.call = "validate_and_postprocess" =>
        \A f \in EnumFieldNames :
            clean_value(fn.input[f]).kind # "absent" =>
                /\ fn.output[f].kind = "str"
                /\ fn.output[f].s \in ValidSet(f)
                /\ fn.output[f].s = ByOrder(f, clean_value(fn.input[f]))

\* the two halves of C18 that the code does satisfy
C18_ValidMember ==
    fn.call = "validate_and_postprocess" =>
        \A f \in EnumFieldNames :
            fn.output[f].kind = "str" => fn.output[f].s \in ValidSet(f)

C18_TextExample ==
    (/\ fn.call = "validate_and_postprocess"
     /\ fn.input["modality"] = Str(<<"text">>))
        => fn.output["modality"] = Str(<<"ziranyuyan", "wenben">>)

(***************************************************************************)
(* _calculate_relevance_score.  Titles, urls, snippets and dataset names   *)
(* are strings of atoms; a keyword or a domain is such a string too.       *)
(***************************************************************************)
MaxTitleLen == 2
MaxNameLen == 1

NameAtoms == {"mnist", "MNIST", "data"}

TitleAtoms == NameAtoms \cup {"set", "x"}

DatasetNames == UNION {[1..n -> NameAtoms] : n \in 0..MaxNameLen}

Titles == UNION {[1..n -> TitleAtoms] : n \in 0..MaxTitleLen}

Urls == {<<>>, <<"mnist">>, <<"kaggle.com">>, <<"github.com", "mnist">>,
         <<"kaggle.com", "github.com">>}

Snippets == {<<>>, <<"mnist">>, <<"data", "set">>}

\* domain_scores, in the order of the dict
domain_scores ==
    << <<"github.com", 8>>, <<"huggingface.co", 7>>, <<"arxiv.org", 6>>,
       <<"paperswithcode.com", 5>>, <<"kaggle.com", 4>> >>

relevant_keywords ==
    << <<"data", "set">>, <<"data">>, <<"repo", "sitory">>, <<"repo">>,
       <<"license">>, <<"citation">>, <<"paper">>, <<"benchmark">>,
       <<"collection">>, <<"corpus">> >>

\* the title branch of the score, without the title bonus
title_score_flat(title, dataset_name_lower) == 0

\* "if dataset_name_lower in title: score += 10.0"
title_score(title, dataset_name_lower) ==
    IF IsSubstring(dataset_name_lower, title) THEN 10 ELSE 0

\* the first domain of domain_scores that the url contains, then break
domain_score(url) ==
    LET hits == {i \in 1..Len(domain_scores) :
                    IsSubstring(<<domain_scores[i][1]>>, url)}
    IN  IF hits = {} THEN 0 ELSE domain_scores[FirstIndex(hits)][2]

\* one point for every keyword found in "title snippet"
keyword_score(title, snippet) ==
    LET text_to_check == title \o <<" ">> \o snippet
    IN  Cardinality({k \in 1..Len(relevant_keywords) :
                        IsSubstring(relevant_keywords[k], text_to_check)})

calculate_relevance_score(search_result, dataset_name) ==
    LET title == Lower(search_result.title)
        url == Lower(search_result.url)
        snippet == Lower(search_result.snippet)
        dataset_name_lower == Lower(dataset_name)
    IN  title_score(title, dataset_name_lower)
          + (IF IsSubstring(dataset_name_lower, url) THEN 5 ELSE 0)
          + (IF IsSubstring(dataset_name_lower, snippet) THEN 2 ELSE 0)
          + domain_score(url)
          + keyword_score(title, snippet)

\* the title with the dataset name put in after its first pos atoms
InsertAt(title, dataset_name, pos) ==
    SubSeq(title, 1, pos) \o dataset_name \o SubSeq(title, pos + 1, Len(title))

\* score a result, and the same result with the dataset name added to
\* its title
CalculateRelevanceScore ==
    /\ fn = NoCall
    /\ \E dataset_name \in DatasetNames, title \in Titles, url \in Urls,
          snippet \in Snippets :
          \E pos \in 0..Len(title) :
             LET without == [title |-> title, url |-> url,
                             snippet |-> snippet]
                 with == [without EXCEPT
                             !.title = InsertAt(title, dataset_name, pos)]
             IN  fn' = [call |-> "calculate_relevance_score",
                        dataset_name |-> dataset_name,
                        without |-> without,
                        with |-> with,
                        score_without |->
                            calculate_relevance_score(without, dataset_name),
                        score_with |->
                            calculate_relevance_score(with, dataset_name)]
    /\ UNCHANGED <<pvars, mvars, wo>>

\* C19 as stated: of two results that differ only in that the title of one
\* contains the dataset name and the title of the other does not, the
\* first scores strictly higher.
C19_TitleMatchMonotonic ==
    (/\ fn.call = "calculate_relevance_score"
     /\ IsSubstring(fn.dataset_name, fn.with.title)
     /\ ~IsSubstring(fn.dataset_name, fn.without.title))
        => fn.score_with > fn.score_without

\* C19, amended: the same, where "contains" is decided after lower-casing
\* both the title and the dataset name.
C19_TitleMatchMonotonicIgnoringCase ==
    (/\ fn.call = "calculate_relevance_score"
     /\ IsSubstring(Lower(fn.dataset_name), Lower(fn.with.title))
     /\ ~IsSubstring(Lower(fn.dataset_name), Lower(fn.without.title)))
        => fn.score_with > fn.score_without

C19_Witness ==
    /\ fn.call = "calculate_relevance_score"
     /\ fn.dataset_name = <<"MNIST">>
     /\ fn.without.title = <<"data", "set">>
     /\ fn.with.title = <<"data", "MNIST", "set">>
     /\ fn.score_with > fn.score_without

(***************************************************************************)
(* preliminary_analysis with the analysis service: _call_llm_with_retry    *)
(* and what the stage makes of its result                                  *)
(***************************************************************************)
\* the largest node_config.max_retries examined
MaxLLMRetries == 3

\* what one chat.completions.create call gives: an exception, a response
\* without choices, or a text that is not JSON, is JSON without the
\* required fields, or is a complete answer
ServiceReplies == {"raises", "empty", "malformed", "incomplete", "valid"}

\* the replies the service would give to the calls of one stage run
ReplySequences == UNION {[1..n -> ServiceReplies] : n \in 0..MaxLLMRetries}

\* the text of a reply as _parse_llm_response sees it
ReplyResponse(content) ==
    [ json |-> content # "malformed",
      fields |-> IF content = "valid" THEN RequiredFields ELSE {},
      confidence_score |-> [kind |-> "number", tenths |-> 8],
      needs_web_search |-> "absent" ]

\* "for attempt in range(max_retries)" from attempt on; trace lists the
\* calls made and the sleeps taken
RECURSIVE call_llm_with_retry(_, _, _, _)
call_llm_with_retry(replies, attempt, llm_max_retries, trace) ==
    IF attempt >= llm_max_retries
    THEN [content |-> "None", trace |-> trace]
    ELSE LET called == Append(trace, [op |-> "call", n |-> attempt])
             reply == replies[attempt + 1]
         IN  IF reply = "raises"
             THEN IF attempt < llm_max_retries - 1
                  THEN call_llm_with_retry(replies, attempt + 1, llm_max_retries,
                           Append(called, [op |-> "sleep", n |-> Pow2[attempt]]))
                  ELSE call_llm_with_retry(replies, attempt + 1, llm_max_retries,
                                           called)
             ELSE IF reply = "empty"
             THEN call_llm_with_retry(replies, attempt + 1, llm_max_retries,
                                      called)
             ELSE [content |-> reply, trace |-> called]

\* the status preliminary_analysis returns for what _call_llm_with_retry
\* gave
stage_status(content) ==
    IF content = "None" THEN FAILED
    ELSE analysis_status(parse_llm_response(ReplyResponse(content)))

\* preliminary_analysis against a service, max_retries being the number of
\* replies at hand
PreliminaryAnalysisCalls ==
    /\ fn = NoCall
    /\ \E replies \in ReplySequences :
          LET r == call_llm_with_retry(replies, 0, Len(replies), << >>)
          IN  fn' = [call |-> "preliminary_analysis",
                     max_retries |-> Len(replies),
                     replies |-> replies,
                     trace |-> r.trace,
                     content |-> r.content,
                     status |-> stage_status(r.content)]
    /\ UNCHANGED <<pvars, mvars, wo>>

\* the positions of the calls in a trace
CallsIn(trace) == {k \in 1..Len(trace) : trace[k].op = "call"}

\* C29: a reply that is malformed or incomplete JSON is a recoverable
\* failure: the stage calls the service again, as long as calls remain
\* within max_retries, before it fails.
C29_ParseFailureRetried ==
    fn.call = "preliminary_analysis" =>
        \A k \in CallsIn(fn.trace) :
            LET i == fn.trace[k].n
            IN  (/\ fn.replies[i + 1] \in {"malformed", "incomplete"}
                 /\ i < fn.max_retries - 1)
                    => \E m \in CallsIn(fn.trace) : fn.trace[m].n = i + 1

\* the wait the claim states after failed call i
StatedWait(i) == CASE i = 0 -> 1 [] i = 1 -> 2 [] i = 2 -> 4 [] i = 3 -> 8

\* C30: at most max_retries calls are made; after failed call i, for i up
\* to max_retries - 2, the stage waits 2^i seconds and then calls again;
\* nothing is waited after the last call; with every call failed the
\* stage returns status failed.
C30_BoundedBackoff ==
    fn.call = "preliminary_analysis" =>
        /\ Cardinality(CallsIn(fn.trace)) <= fn.max_retries
        /\ \A k \in CallsIn(fn.trace) :
              LET i == fn.trace[k].n
              IN  (/\ fn.replies[i + 1] \in {"raises", "empty"}
                   /\ i <= fn.max_retries - 2)
                      => /\ k + 2 <= Len(fn.trace)
                         /\ fn.trace[k + 1] = [op |-> "sleep", n |-> StatedWait(i)]
                         /\ fn.trace[k + 2] = [op |-> "call", n |-> i + 1]
        /\ fn.trace # << >> => fn.trace[Len(fn.trace)].op = "call"
        /\ (\A i \in 1..fn.max_retries : fn.replies[i] \in {"raises", "empty"})
              => fn.status = FAILED

\* the parts of C30 the code keeps: the bound on the calls, the waits of
\* 1, 2, 4 seconds after a call that raised, no wait after the last call,
\* and failure when no call gave a text
C30_BackoffAfterException ==
    fn.call = "preliminary_analysis" =>
        /\ Cardinality(CallsIn(fn.trace)) <= fn.max_retries
        /\ \A k \in CallsIn(fn.trace) :
              LET i == fn.trace[k].n
              IN  (fn.replies[i + 1] = "raises" /\ i <= fn.max_retries - 2)
                      => /\ k + 2 <= Len(fn.trace)
                         /\ fn.trace[k + 1] = [op |-> "sleep", n |-> StatedWait(i)]
                         /\ fn.trace[k + 2] = [op |-> "call", n |-> i + 1]
        /\ fn.trace # << >> => fn.trace[Len(fn.trace)].op = "call"
        /\ (\A i \in 1..fn.max_retries : fn.replies[i] \in {"raises", "empty"})
              => fn.status = FAILED

(***************************************************************************)
(* synthesize_and_populate when the synthesis service gives nothing:       *)
(* _fallback_to_preliminary and _supplement_with_local_data                *)
(***************************************************************************)
\* a field without a value: the key is missing, None or ""
NoValue == "null"

\* the fields the local merge draws from more than one origin
MergedFields == {"name", "source_url", "source"}

\* preliminary as preliminary_analysis stored it: per field nothing, a
\* string, or (source_url) a JSON list where a string was asked for
PreliminaryMetas ==
    [ name : {NoValue, "prelim"},
      source_url : {NoValue, "prelim", "list"},
      source : {NoValue, "prelim"} ]

\* doc_info as parse_dataset_documents read it from the dataset's documents
DocInfos ==
    [ name : {NoValue, "doc"},
      source_url : {NoValue, "doc"},
      source : {NoValue, "doc"} ]

\* web_search: no result, or a first result with its url
SearchLists ==
    {<< >>} \cup {<<[url |-> u]>> : u \in {"github.com/x", "kaggle.com/x", "other/x"}}

\* the source _fallback_to_preliminary reads off a url
source_of_url(url) ==
    CASE url = "github.com/x" -> "GitHub"
      [] url = "kaggle.com/x" -> "Kaggle"
      [] OTHER -> NoValue

\* _fallback_to_preliminary: a copy of preliminary; the name, the
\* source_url and the source are filled in only where preliminary has none
fallback_to_preliminary(preliminary, search, dataset_name) ==
    LET named == IF preliminary.name = NoValue /\ dataset_name # NoValue
                 THEN [preliminary EXCEPT !.name = dataset_name]
                 ELSE preliminary
    IN  IF search = << >> THEN named
        ELSE LET url == search[1].url
                 with_url == IF named.source_url = NoValue
                             THEN [named EXCEPT !.source_url = url]
                             ELSE named
             IN  IF with_url.source = NoValue
                 THEN [with_url EXCEPT !.source = source_of_url(url)]
                 ELSE with_url

\* _supplement_with_local_data: size, num_files, checksum and the defaults
\* are added; doc_info is read for the log only.  The closing log line
\* calls source_url.startswith, which a list does not have.
supplement_raises(meta) == meta.source_url = "list"

supplement_with_local_data(meta, doc_info) ==
    [ name |-> meta.name,
      source_url |-> meta.source_url,
      source |-> meta.source,
      size |-> "formatted",
      num_files |-> "counted",
      version |-> "v1.0",
      access_level |-> "public" ]

\* synthesize_and_populate with _call_llm_for_synthesis returning None or
\* raising: both branches build the same fallback, and the one of the
\* except block is not guarded
synthesize_fallback(preliminary, search, dataset_name, doc_info) ==
    LET fallback_meta == fallback_to_preliminary(preliminary, search, dataset_name)
    IN  IF supplement_raises(fallback_meta)
        THEN [status |-> "raised", meta |-> fallback_meta]
        ELSE [status |-> PROCESSING,
              meta |-> supplement_with_local_data(fallback_meta, doc_info)]

SynthesizeFallback ==
    /\ fn = NoCall
    /\ \E preliminary \in PreliminaryMetas, search \in SearchLists,
          doc_info \in DocInfos, dataset_name \in {NoValue, "dir_name"} :
          fn' = [call |-> "synthesize_and_populate",
                 service |-> "fails",
                 preliminary |-> preliminary,
                 search |-> search,
                 doc_info |-> doc_info,
                 dataset_name |-> dataset_name,
                 out |-> synthesize_fallback(preliminary, search,
                                             dataset_name, doc_info)]
    /\ UNCHANGED <<pvars, mvars, wo>>

\* what the search results say about a field
SearchDerived(search, f) ==
    IF search = << >> THEN NoValue
    ELSE CASE f = "source_url" -> search[1].url
           [] f = "source" -> source_of_url(search[1].url)
           [] OTHER -> NoValue

\* the value of field f under the order document > search > preliminary
ByPriority(f) ==
    IF fn.doc_info[f] # NoValue THEN fn.doc_info[f]
    ELSE IF SearchDerived(fn.search, f) # NoValue
    THEN SearchDerived(fn.search, f)
    ELSE fn.preliminary[f]

\* C31: when the synthesis service fails, synthesize_and_populate returns
\* status processing and a meta in which every field has the value of the
\* document if there is one, else the value derived from the search, else
\* the value of the preliminary analysis.
C31_FallbackMergePriority ==
    fn.call = "synthesize_and_populate" =>
        /\ fn.out.status = PROCESSING
        /\ \A f \in {"source_url", "source"} :
              fn.out.meta[f] = ByPriority(f)

\* the part of C31 the code keeps: with string-valued fields the run is not
\* failed, and a field the preliminary analysis left empty takes the value
\* derived from the search
C31_FallbackFillsGaps ==
    (fn.call = "synthesize_and_populate"
       /\ fn.preliminary.source_url # "list") =>
        /\ fn.out.status = PROCESSING
        /\ \A f \in {"source_url", "source"} :
              fn.out.meta[f] = IF fn.preliminary[f] # NoValue
                               THEN fn.preliminary[f]
                               ELSE SearchDerived(fn.search, f)

(***************************************************************************)
(* web_search against the search service: the queries of one stage run,    *)
(* _execute_search / _search_tavily for each, and what the stage returns   *)
(***************************************************************************)
\* "return queries[:3]"
MaxQueries == 3

\* what one _search_tavily call gives: results, an empty result list, a
\* 429 response, another HTTP error status, or a failed request
SearchReplies == {"results", "no_results", "429", "http_error", "request_error"}

\* _build_search_queries: no query without a dataset name; with one, the
\* first three of the four or five it builds
build_search_queries(dataset_name) ==
    IF dataset_name = NoValue THEN 0 ELSE MaxQueries

\* "for query in search_queries" from query q on.  A query that succeeded
\* is followed by sleep(1) when there is more than one query; _search_tavily
\* sleeps 5 seconds on a 429 and raises again; the loop logs a failed query
\* and continues with the next one.
RECURSIVE run_queries(_, _, _)
run_queries(replies, q, trace) ==
    IF q > Len(replies) THEN trace
    ELSE LET called == Append(trace, [op |-> "call", n |-> q])
         IN  IF replies[q] \in {"results", "no_results"}
             THEN run_queries(replies, q + 1,
                      IF Len(replies) > 1
                      THEN Append(called, [op |-> "sleep", n |-> 1])
                      ELSE called)
             ELSE IF replies[q] = "429"
             THEN run_queries(replies, q + 1,
                      Append(called, [op |-> "sleep", n |-> 5]))
             ELSE run_queries(replies, q + 1, called)

\* an except block of web_search that gives the run up
web_search_except_fails(error_msg) ==
    [ current_step |-> "web_search",
      status |-> FAILED,
      web_search |-> "empty",
      error_message |-> error_msg ]

\* the except block of web_search
web_search_except(error_msg) ==
    [ current_step |-> "web_search",
      status |-> PROCESSING,
      web_search |-> "empty",
      error_message |-> error_msg ]

\* web_search.  fault is where an exception is raised outside the query
\* loop: in _build_search_queries (a description that is no string), in
\* _filter_results (a result whose title is null), or nowhere; relevant is
\* whether some collected result scores above 0.
web_search_stage(enabled, dataset_name, replies, fault, relevant) ==
    IF ~enabled
    THEN [ trace |-> << >>,
           update |-> [ current_step |-> "web_search", status |-> PROCESSING,
                        web_search |-> "empty" ] ]
    ELSE IF fault = "build_queries"
    THEN [ trace |-> << >>, update |-> web_search_except("web_search error") ]
    ELSE IF Len(replies) = 0
    THEN [ trace |-> << >>,
           update |-> [ current_step |-> "web_search", status |-> PROCESSING,
                        web_search |-> "empty" ] ]
    ELSE LET trace == run_queries(replies, 1, << >>)
             collected == \E q \in 1..Len(replies) : replies[q] = "results"
         IN  IF fault = "filter" /\ collected
             THEN [ trace |-> trace,
                    update |-> web_search_except("web_search error") ]
             ELSE [ trace |-> trace,
                    update |-> [ current_step |-> "web_search",
                                 status |-> PROCESSING,
                                 web_search |-> IF collected /\ relevant
                                                THEN "results"
                                                ELSE "empty" ] ]

\* one run of the web_search node on a state that scan_and_parse and
\* preliminary_analysis filled, and the node the graph runs after it
WebSearchQueries ==
    /\ fn = NoCall
    /\ \E enabled \in BOOLEAN, dataset_name \in {NoValue, "dir_name"},
          fault \in {"none", "build_queries", "filter"}, relevant \in BOOLEAN :
          \E replies \in [1..build_search_queries(dataset_name) -> SearchReplies] :
             LET r == web_search_stage(enabled, dataset_name, replies,
                                       fault, relevant)
             IN  fn' = [call |-> "web_search",
                        enabled |-> enabled,
                        replies |-> replies,
                        fault |-> fault,
                        trace |-> r.trace,
                        update |-> r.update,
                        next |-> Edge("web_search",
                                      Merge(DatasetState(1), r.update))]
    /\ UNCHANGED <<pvars, mvars, wo>>

\* C32: a 429 response to a query is followed by a fixed delay, after
\* which web_search, the caller of the search call, makes the same call
\* again: the query is not given up.
C32_RateLimitRetried ==
    fn.call = "web_search" =>
        \A k \in CallsIn(fn.trace) :
            fn.replies[fn.trace[k].n] = "429"
                => /\ k + 2 <= Len(fn.trace)
                   /\ fn.trace[k + 1] = [op |-> "sleep", n |-> 5]
                   /\ fn.trace[k + 2] = [op |-> "call", n |-> fn.trace[k].n]

\* the part of C32 the code keeps: the fixed delay of 5 seconds after a
\* 429; every query is called once
C32_RateLimitDelayed ==
    fn.call = "web_search" =>
        /\ \A k \in CallsIn(fn.trace) :
              fn.replies[fn.trace[k].n] = "429"
                  => /\ k + 1 <= Len(fn.trace)
                     /\ fn.trace[k + 1] = [op |-> "sleep", n |-> 5]
        /\ \A k, m \in CallsIn(fn.trace) :
              fn.trace[k].n = fn.trace[m].n => k = m

\* the calls of a trace that the service answered with a failure
FailedCalls(trace, replies) ==
    {k \in CallsIn(trace) :
        replies[trace[k].n] \in {"429", "http_error", "request_error"}}

\* C33: whatever fails, a single query or the stage as a whole, web_search
\* returns status processing with a web_search list that may be empty;
\* after a failed query the next query is still called; the node that
\* runs next is synthesize_and_populate.
C33_SearchNeverFails ==
    fn.call = "web_search" =>
        /\ fn.update.status = PROCESSING
        /\ fn.update.web_search \in {"empty", "results"}
        /\ \A k \in FailedCalls(fn.trace, fn.replies) :
              fn.trace[k].n < Len(fn.replies)
                  => \E m \in CallsIn(fn.trace) :
                        m > k /\ fn.trace[m].n = fn.trace[k].n + 1
        /\ fn.next = "synthesize_and_populate"

\* two queries fail, the third gives results, and _filter_results raises
C33_Witness ==
    /\ fn.call = "web_search"
    /\ Len(fn.replies) = MaxQueries
    /\ fn.replies[1] = "429"
    /\ fn.replies[2] = "request_error"
    /\ fn.replies[3] = "results"
    /\ fn.fault = "filter"
    /\ Cardinality(CallsIn(fn.trace)) = MaxQueries
    /\ fn.update.status = PROCESSING
    /\ fn.update.web_search = "empty"
    /\ "error_message" \in DOMAIN fn.update

(***************************************************************************)
(* web_search after the query loop: _deduplicate_results, _filter_results  *)
(* and the cut to config.search.max_results                                *)
(***************************************************************************)
\* the longest all_results examined, and the largest max_results
MaxResults == 3

\* results the service may give for the dataset "mnist": two that score the
\* same under different urls, one that scores higher, a url met twice, a
\* result that scores 0 and a result without url
FoundResults ==
    { [title |-> <<"mnist">>, url |-> <<"kaggle.com">>, snippet |-> << >>],
      [title |-> <<"data">>, url |-> <<"github.com", "mnist">>, snippet |-> << >>],
      [title |-> <<"mnist">>, url |-> <<"github.com", "mnist">>, snippet |-> << >>],
      [title |-> <<"mnist">>, url |-> <<"mnist">>, snippet |-> << >>],
      [title |-> << >>, url |-> <<"x">>, snippet |-> << >>],
      [title |-> <<"data">>, url |-> << >>, snippet |-> << >>] }

\* _deduplicate_results: a result is kept when it has a url that no
\* earlier result has
RECURSIVE deduplicate_results(_, _)
deduplicate_results(results, seen_urls) ==
    IF results = << >> THEN << >>
    ELSE LET r == Head(results)
         IN  IF r.url # << >> /\ r.url \notin seen_urls
             THEN <<r>> \o deduplicate_results(Tail(results),
                                               seen_urls \cup {r.url})
             ELSE deduplicate_results(Tail(results), seen_urls)

\* the loop of _filter_results: results that score above 0, each with its
\* relevance_score
RECURSIVE scored_results(_, _)
scored_results(results, dataset_name) ==
    IF results = << >> THEN << >>
    ELSE LET r == Head(results)
             score == calculate_relevance_score(r, dataset_name)
             rest == scored_results(Tail(results), dataset_name)
         IN  IF score > 0
             THEN <<[title |-> r.title, url |-> r.url, snippet |-> r.snippet,
                     relevance_score |-> score]>> \o rest
             ELSE rest

\* a descending sort that puts the later of two equal scores first
sort_reversing_ties(scored) ==
    LET rank(i) ==
            1 + Cardinality({j \in 1..Len(scored) :
                    \/ scored[j].relevance_score > scored[i].relevance_score
                    \/ /\ scored[j].relevance_score = scored[i].relevance_score
                       /\ j > i})
    IN  [k \in 1..Len(scored) |->
            scored[CHOOSE i \in 1..Len(scored) : rank(i) = k]]

\* list.sort(key=relevance_score, reverse=True): descending, and stable,
\* so equal scores keep the order they have in the list
sort_by_relevance(scored) ==
    LET rank(i) ==
            1 + Cardinality({j \in 1..Len(scored) :
                    \/ scored[j].relevance_score > scored[i].relevance_score
                    \/ /\ scored[j].relevance_score = scored[i].relevance_score
                       /\ j < i})
    IN  [k \in 1..Len(scored) |->
            scored[CHOOSE i \in 1..Len(scored) : rank(i) = k]]

filter_results(results, dataset_name) ==
    sort_by_relevance(scored_results(results, dataset_name))

\* "filtered_results[:config.search.max_results]"
limit_results(results, max_results) ==
    SubSeq(results, 1, IF max_results < Len(results)
                       THEN max_results ELSE Len(results))

\* lines 80-94 of web_search on the results the queries collected
FilterResults ==
    /\ fn = NoCall
    /\ \E n \in 0..MaxResults, max_results \in 0..MaxResults :
          \E all_results \in [1..n -> FoundResults] :
             fn' = [call |-> "filter_results",
                    all_results |-> all_results,
                    max_results |-> max_results,
                    out |-> limit_results(
                                filter_results(
                                    deduplicate_results(all_results, {}),
                                    <<"mnist">>),
                                max_results)]
    /\ UNCHANGED <<pvars, mvars, wo>>

\* where a result was discovered: the first place of its url in all_results
Discovered(url) ==
    FirstIndex({k \in 1..Len(fn.all_results) : fn.all_results[k].url = url})

\* C38: the results the search stage returns are in descending order of
\* relevance score; of two results with the same score the one discovered
\* first comes first; no two results have the same url; there are at most
\* max_results of them.
C38_SortedStableUniqueBounded ==
    fn.call = "filter_results" =>
        /\ \A i, j \in 1..Len(fn.out) :
              i < j =>
                 /\ fn.out[i].relevance_score >= fn.out[j].relevance_score
                 /\ fn.out[i].relevance_score = fn.out[j].relevance_score
                       => Discovered(fn.out[i].url) < Discovered(fn.out[j].url)
                 /\ fn.out[i].url # fn.out[j].url
        /\ Len(fn.out) <= fn.max_results

\* three results come back in another order than they were found: the
\* best one was found last, the other two score the same
C38_Witness ==
    /\ fn.call = "filter_results"
    /\ Len(fn.all_results) = 3
    /\ Len(fn.out) = 3
    /\ fn.out[1].url = fn.all_results[3].url
    /\ fn.out[2].relevance_score = fn.out[3].relevance_score
    /\ fn.out[2].url = fn.all_results[1].url

\* C34: a validation error (an enumeration value outside its enumeration,
\* a value of the wrong type, a required field that is missing) never ends
\* the run: validate_and_postprocess does not return status failed, and it
\* repairs the record in place: a field in error gets a member of its
\* enumeration, every other field keeps the value it had.
C34_ValidationRecoveredInPlace ==
    fn.call = "validate_and_postprocess" =>
        /\ fn.update.status # FAILED
        /\ \A f \in EnumFieldNames :
              LET c == clean_value(fn.input[f])
              IN  IF c.kind = "str" /\ c.s \in ValidSet(f)
                  THEN fn.output[f] = c
                  ELSE IF c.kind = "absent" /\ f \notin RequiredEnumFields
                  THEN fn.output[f] = c
                  ELSE /\ fn.output[f].kind = "str"
                       /\ fn.output[f].s \in ValidSet(f)

\* the part of C34 the code keeps: the stage never returns status failed
\* for a meta that is not empty, and with values that are strings or
\* missing the repair is made field by field
C34_ValidationNotTerminal ==
    fn.call = "validate_and_postprocess" =>
        /\ fn.update.status = PROCESSING
        /\ clean_value(fn.input[fn.field]).kind # "list" =>
              \A f \in EnumFieldNames :
                  f # fn.field => fn.output[f] = fn.input[f]

(***************************************************************************)
(* read_and_sample on a file list: _sample_files and the two try blocks    *)
(***************************************************************************)
\* the longest file list examined
MaxFiles == 2

\* what happens to one file inside the loop of _sample_files: it is read
\* and sampled, it is skipped as binary or too large, no encoding reads it
\* (_read_file_with_encoding gives None), or reading or sampling it raises
FileOutcomes == {"sampled", "skipped", "unreadable", "raises"}

\* the loop "for file_stat in files_to_process" from file i on: the
\* summary is added first; the sample only when the file was read; an
\* exception is caught inside the loop, which continues with the next file
RECURSIVE sample_files(_, _, _)
sample_files(files, i, sampled_content) ==
    IF i > Len(files) THEN sampled_content
    ELSE LET summarized == [sampled_content EXCEPT
                               !.file_summaries = Append(@, i)]
         IN  sample_files(files, i + 1,
                 IF files[i] = "sampled"
                 THEN [summarized EXCEPT !.samples = Append(@, i)]
                 ELSE summarized)

\* read_and_sample.  fault is whether an exception is raised outside the
\* loop over the files (in _prioritize_files, while the combined sample is
\* joined, or in json.dumps): the except block of the node returns failed
\* and no sample.
ReadAndSample ==
    /\ fn = NoCall
    /\ \E n \in 0..MaxFiles, fault \in BOOLEAN :
          \E files \in [1..n -> FileOutcomes] :
             fn' = [call |-> "read_and_sample",
                    files |-> files,
                    fault |-> fault,
                    sampled_content |->
                        sample_files(IF fault THEN << >> ELSE files, 1,
                            [file_summaries |-> << >>, samples |-> << >>]),
                    update |-> read_and_sample(DatasetState(1),
                                   IF fault THEN "exception" ELSE "ok")]
    /\ UNCHANGED <<pvars, mvars, wo>>

\* the files of a file list that can be read
Readable(files) == {i \in 1..Len(files) : files[i] = "sampled"}

\* C35: read_and_sample never returns status failed; a file that cannot
\* be read is skipped and every file that can be read is sampled.
C35_SampleNeverFails ==
    fn.call = "read_and_sample" =>
        /\ fn.update.status # FAILED
        /\ \A i \in Readable(fn.files) :
              \E k \in 1..Len(fn.sampled_content.samples) :
                  fn.sampled_content.samples[k] = i

\* the part of C35 the code keeps: without an exception outside the loop
\* the status is processing, every file has its summary, and exactly the
\* readable files are sampled, in order
C35_ReadErrorSkipsFile ==
    (fn.call = "read_and_sample" /\ ~fn.fault) =>
        /\ fn.update.status = PROCESSING
        /\ Len(fn.sampled_content.file_summaries) = Len(fn.files)
        /\ {fn.sampled_content.samples[k] :
               k \in 1..Len(fn.sampled_content.samples)} = Readable(fn.files)

(***************************************************************************)
(* The keys of meta from synthesize_and_populate through                   *)
(* validate_and_postprocess to generate_markdown                           *)
(***************************************************************************)
\* three keys of meta: a required field of DatasetMetadata, an optional
\* one, and a key of the synthesis answer that DatasetMetadata does not
\* declare
TrackedKeys == {"name", "license", "confidence_score"}

\* the fields of DatasetMetadata among the tracked keys
DatasetMetadataFields == {"name", "license"}

\* a key is in the dict when it has a value, None included
KeysOf(meta) == {k \in TrackedKeys : meta[k].kind # "absent"}

\* _clean_and_normalize_meta: a key whose value is None or blank is left
\* out of the cleaned dict
clean_and_normalize_meta(meta) ==
    [k \in TrackedKeys |-> clean_value(meta[k])]

\* _supplement_required_fields: "if 'name' not in meta" the name of the
\* state is put in
supplement_required_fields(meta) ==
    [meta EXCEPT !["name"] = IF @.kind = "absent" THEN Str(<<"x">>) ELSE @]

\* the meta validate_and_postprocess returns: the cleaned and supplemented
\* dict, or from the except block _create_fallback_metadata, which has a
\* name and neither license nor confidence_score
meta_after_validate(meta, raises) ==
    IF raises
    THEN [k \in TrackedKeys |->
             IF k = "name" THEN Str(<<"x">>) ELSE MetaAbsent]
    ELSE supplement_required_fields(clean_and_normalize_meta(meta))

\* the meta generate_markdown returns, metadata.dict(): the fields of
\* DatasetMetadata, None where meta had no value; any other key is gone
meta_after_markdown(meta) ==
    [k \in TrackedKeys |->
        IF k \notin DatasetMetadataFields THEN MetaAbsent
        ELSE IF meta[k].kind = "absent" THEN [kind |-> "null", s |-> << >>]
        ELSE meta[k]]

\* a meta as synthesize_and_populate wrote it, through the two stages that
\* write meta after it; raises is whether validate_and_postprocess leaves
\* by its except block
MetaThroughStages ==
    /\ fn = NoCall
    /\ \E meta \in [TrackedKeys ->
                       {MetaAbsent, [kind |-> "null", s |-> << >>],
                        Str(<<"x">>)}],
          raises \in BOOLEAN :
          LET validated == meta_after_validate(meta, raises)
          IN  fn' = [call |-> "meta_keys",
                     raises |-> raises,
                     synthesized |-> meta,
                     validated |-> validated,
                     documented |-> meta_after_markdown(validated)]
    /\ UNCHANGED <<pvars, mvars, wo>>

\* C37: no stage removes a key an earlier stage wrote: the keys of meta
\* after validate_and_postprocess include the keys synthesize_and_populate
\* wrote, and the keys after generate_markdown include those.
C37_AppendOnlyKeys ==
    fn.call = "meta_keys" =>
        /\ KeysOf(fn.synthesized) \subseteq KeysOf(fn.validated)
        /\ KeysOf(fn.validated) \subseteq KeysOf(fn.documented)

\* what the code keeps of C37: a key that holds a value survives
\* validate_and_postprocess unless the except block is taken, and a field
\* of DatasetMetadata survives generate_markdown
C37_ValuedModelFieldsKept ==
    fn.call = "meta_keys" =>
        /\ ~fn.raises =>
              \A k \in KeysOf(fn.synthesized) :
                  clean_value(fn.synthesized[k]).kind # "absent"
                      => k \in KeysOf(fn.validated)
        /\ KeysOf(fn.validated) \cap DatasetMetadataFields
              \subseteq KeysOf(fn.documented)

FunctionsNext ==
    \/ DecideNeedSearch
    \/ ParseResponse
    \/ ValidateAndPostprocess
    \/ CalculateRelevanceScore
    \/ PreliminaryAnalysisCalls
    \/ SynthesizeFallback
    \/ WebSearchQueries
    \/ FilterResults
    \/ ReadAndSample
    \/ MetaThroughStages

SpecFunctions == Init /\ [][FunctionsNext]_vars

====
